---------------------------- MODULE Spec2Model ----------------------------
(***************************************************************************)
(* Model of the PM resume tailoring agent (src/pm_resume_agent.py).        *)
(*                                                                         *)
(* Python strings are TLA+ strings, handled character by character with    *)
(* Len, SubSeq and \o.  Python floats are integers counted in tenths:      *)
(* the weight 0.8 is 8, the bonus 5.0 is 50, a score of 2.4 is 24.  Every  *)
(* float the program computes is a sum of products count * weight and of   *)
(* the two bonuses; the model computes these sums exactly, the rounding of *)
(* binary floating point is not modelled.  Ordered dicts are sequences of  *)
(* records in insertion order.  Experience objects live in a heap          *)
(* (exp_objs) and lists of experiences are lists of references.            *)
(***************************************************************************)
EXTENDS Integers, Sequences, FiniteSets, TLC

(***************************************************************************)
(* Bounds of the model.                                                    *)
(***************************************************************************)
\* largest number of experiences in a profile (the program keeps 5)
MaxExps == 6
\* largest number of skills in a profile (the program keeps 15)
MaxSkills == 16

(***************************************************************************)
(* Python str operations.                                                  *)
(***************************************************************************)
UpperCase == "ABCDEFGHIJKLMNOPQRSTUVWXYZ"
LowerCase == "abcdefghijklmnopqrstuvwxyz"

CharAt(s, i) == SubSeq(s, i, i)

\* the characters of s, as a set
Chars(s) == {CharAt(s, i) : i \in 1..Len(s)}

UpperLetters == Chars(UpperCase)
LowerLetters == Chars(LowerCase)
Digits == Chars("0123456789")

\* the lowercase letter of every uppercase letter
RECURSIVE LetterMap(_)
LetterMap(i) ==
    IF i > Len(UpperCase) THEN <<>>
    ELSE (CharAt(UpperCase, i) :> CharAt(LowerCase, i)) @@ LetterMap(i + 1)

UpperToLower == LetterMap(1)

IsUpper(c) == c \in UpperLetters
IsLower(c) == c \in LowerLetters
IsLetter(c) == IsUpper(c) \/ IsLower(c)
IsDigit(c) == c \in Digits
IsSpace(c) == c \in {" ", "\n", "\t"}

LowerChar(c) == IF IsUpper(c) THEN UpperToLower[c] ELSE c

\* str.lower(), character by character (the string is halved to keep the
\* recursion shallow)
RECURSIVE Lower(_)
Lower(s) ==
    IF Len(s) = 0 THEN ""
    ELSE IF Len(s) = 1 THEN LowerChar(s)
    ELSE Lower(SubSeq(s, 1, Len(s) \div 2))
         \o Lower(SubSeq(s, Len(s) \div 2 + 1, Len(s)))

\* s[i-1:] starts with pre
StartsAt(s, i, pre) ==
    /\ i + Len(pre) - 1 <= Len(s)
    /\ SubSeq(s, i, i + Len(pre) - 1) = pre

\* sub in s
Contains(sub, s) == \E i \in 1..(Len(s) - Len(sub) + 1) : StartsAt(s, i, sub)

\* s.count(sub) for a non-empty sub: non-overlapping occurrences, scanning
\* from the left and resuming after each occurrence
RECURSIVE CountFrom(_, _, _)
CountFrom(s, sub, i) ==
    LET found == {k \in i..Len(s) : StartsAt(s, k, sub)}
    IN  IF found = {} THEN 0
        ELSE 1 + CountFrom(s, sub, Len(sub) + CHOOSE k \in found : \A m \in found : k <= m)

\* a count of all occurrences, overlapping ones too
CountOverlapping(s, sub) == Cardinality({k \in 1..Len(s) : StartsAt(s, k, sub)})

Count(s, sub) == CountFrom(s, sub, 1)

\* sep.join(items)
RECURSIVE Join(_, _)
Join(sep, items) ==
    IF Len(items) = 0 THEN ""
    ELSE IF Len(items) = 1 THEN items[1]
    ELSE items[1] \o sep \o Join(sep, Tail(items))

\* s.replace(old, new) for a one-character old
RECURSIVE ReplaceChar(_, _, _)
ReplaceChar(s, old, new) ==
    IF Len(s) = 0 THEN ""
    ELSE IF Len(s) = 1 THEN (IF s = old THEN new ELSE s)
    ELSE ReplaceChar(SubSeq(s, 1, Len(s) \div 2), old, new)
         \o ReplaceChar(SubSeq(s, Len(s) \div 2 + 1, Len(s)), old, new)

\* s.strip()
RECURSIVE LStrip(_)
LStrip(s) == IF Len(s) > 0 /\ IsSpace(CharAt(s, 1)) THEN LStrip(Tail(s)) ELSE s
RECURSIVE RStrip(_)
RStrip(s) ==
    IF Len(s) > 0 /\ IsSpace(CharAt(s, Len(s)))
    THEN RStrip(SubSeq(s, 1, Len(s) - 1)) ELSE s
Strip(s) == RStrip(LStrip(s))

\* the list whose elements are those of the function f on 1..n, each element
\* computed once
List(f) == SubSeq(f, 1, Len(f))

\* a function as an explicit table: each value is computed once
Tabulated(f) == f @@ <<>>

\* seq[::-1]
Reverse(seq) == List([i \in 1..Len(seq) |-> seq[Len(seq) + 1 - i]])

\* a slice that keeps one element too many
TakeOneMore(seq, k) == SubSeq(seq, 1, IF Len(seq) < k + 1 THEN Len(seq) ELSE k + 1)

\* seq[:k]
Take(seq, k) == SubSeq(seq, 1, IF Len(seq) < k THEN Len(seq) ELSE k)

RECURSIVE SumSeq(_)
SumSeq(seq) == IF Len(seq) = 0 THEN 0 ELSE seq[1] + SumSeq(Tail(seq))

\* sorted(range(len(keys)), key=keys.__getitem__, reverse=True): the order in
\* which Python's sorted(..., reverse=True) returns the elements whose keys
\* are keys: descending by key, elements with equal keys in their original
\* order (the sort is stable, also with reverse=True)
\* element i goes after the elements of order whose key is not smaller
InsertDesc(order, i, keys) ==
    LET before == Cardinality({j \in 1..Len(order) : keys[order[j]] >= keys[i]})
    IN  SubSeq(order, 1, before) \o <<i>> \o SubSeq(order, before + 1, Len(order))

RECURSIVE SortFrom(_, _, _)
SortFrom(keys, i, order) ==
    IF i > Len(keys) THEN order
    ELSE SortFrom(keys, i + 1, InsertDesc(order, i, keys))

SortedDescOrder(keys) == SortFrom(keys, 1, <<>>)

\* sorted(seq, key=..., reverse=True), keys[i] being the key of seq[i]
SortedDesc(seq, keys) ==
    LET order == SortedDescOrder(keys)
    IN  List([i \in 1..Len(seq) |-> seq[order[i]]])

(***************************************************************************)
(* JobDescriptionAnalyzer.                                                 *)
(***************************************************************************)
\* JobDescriptionAnalyzer.PM_KEYWORDS as written in the class body: a dict,
\* here its items in insertion order
BASE_PM_KEYWORDS == <<
    [category |-> "core_skills", keywords |-> <<
        "product management", "product strategy", "roadmap", "user stories",
        "agile", "scrum", "kanban", "sprint planning", "backlog management",
        "stakeholder management", "cross-functional", "data analysis",
        "market research", "competitive analysis", "user research", "ux/ui",
        "metrics", "kpis", "analytics", "a/b testing", "experimentation" >>],
    [category |-> "technical_skills", keywords |-> <<
        "sql", "python", "jira", "confluence", "figma", "sketch",
        "google analytics", "mixpanel", "amplitude", "tableau",
        "api", "sdk", "aws", "azure", "gcp", "docker", "kubernetes" >>],
    [category |-> "soft_skills", keywords |-> <<
        "leadership", "communication", "collaboration", "problem solving",
        "critical thinking", "decision making", "negotiation",
        "presentation", "mentoring", "coaching", "influence" >>],
    [category |-> "industries", keywords |-> <<
        "saas", "fintech", "healthcare", "e-commerce", "mobile",
        "enterprise", "b2b", "b2c", "marketplace", "platform" >>] >>

\* config.INDUSTRY_KEYWORDS['enterprise']: a category whose phrases 'b2b',
\* 'saas' and 'api' are phrases of PM_KEYWORDS categories too
ENTERPRISE_KEYWORDS ==
    [category |-> "enterprise", keywords |-> <<
        "enterprise sales", "b2b", "saas", "api", "integration",
        "scalability", "security", "compliance", "enterprise architecture" >>]

\* the keyword tables an analyzer is run with: the class's own, and the table
\* with the 'enterprise' category of config.INDUSTRY_KEYWORDS put before and
\* after the categories that share phrases with it
KeywordTables ==
    { BASE_PM_KEYWORDS,
      BASE_PM_KEYWORDS \o <<ENTERPRISE_KEYWORDS>>,
      <<ENTERPRISE_KEYWORDS>> \o BASE_PM_KEYWORDS }

\* the categories of PM_KEYWORDS, none of them with a phrase
EMPTY_CATEGORIES ==
    List([c \in 1..Len(BASE_PM_KEYWORDS) |->
            [category |-> BASE_PM_KEYWORDS[c].category, keywords |-> <<>>]])

\* the keyword tables without entries: the empty dict, and the categories of
\* the class with empty phrase lists
NoKeywordTables == { <<>>, EMPTY_CATEGORIES }

\* JobDescriptionAnalyzer.__init__: all_keywords
RECURSIVE AllKeywords(_)
AllKeywords(table) ==
    IF Len(table) = 0 THEN <<>>
    ELSE table[1].keywords \o AllKeywords(Tail(table))

\* analyze, lines 95-102: the found keywords of one category's list
RECURSIVE FoundIn(_, _)
FoundIn(keywords, jd_lower) ==
    IF Len(keywords) = 0 THEN <<>>
    ELSE (IF Contains(keywords[1], jd_lower)
          THEN << [keyword |-> keywords[1], count |-> Count(jd_lower, keywords[1])] >>
          ELSE <<>>)
         \o FoundIn(Tail(keywords), jd_lower)

\* analyze, lines 96-102: found_keywords, one entry per category of the table
FoundKeywords(table, jd_lower) ==
    List([c \in 1..Len(table) |->
            [category |-> table[c].category,
             found |-> FoundIn(table[c].keywords, jd_lower)]])

\* a weight of 0 for a category that is not listed
CategoryWeightOfListed(category) ==
    CASE category = "core_skills" -> 10
      [] category = "technical_skills" -> 8
      [] category = "soft_skills" -> 6
      [] category = "industries" -> 7
      [] OTHER -> 0

\* category_weights.get(category, 0.5), in tenths
CategoryWeight(category) ==
    CASE category = "core_skills" -> 10
      [] category = "technical_skills" -> 8
      [] category = "soft_skills" -> 6
      [] category = "industries" -> 7
      [] OTHER -> 5

\* scores[keyword] += value: a phrase met again adds to its score
DictAdd(dict, keyword, value) ==
    IF \E i \in 1..Len(dict) : dict[i].keyword = keyword
    THEN List([i \in 1..Len(dict) |->
                IF dict[i].keyword = keyword
                THEN [keyword |-> keyword, score |-> dict[i].score + value]
                ELSE dict[i]])
    ELSE Append(dict, [keyword |-> keyword, score |-> value])

\* scores[keyword] = value on a dict: an existing key keeps its place
DictSet(dict, keyword, value) ==
    IF \E i \in 1..Len(dict) : dict[i].keyword = keyword
    THEN List([i \in 1..Len(dict) |->
                IF dict[i].keyword = keyword
                THEN [keyword |-> keyword, score |-> value] ELSE dict[i]])
    ELSE Append(dict, [keyword |-> keyword, score |-> value])

\* the inner loop of _calculate_keyword_scores over one category
RECURSIVE ScoreCategory(_, _, _)
ScoreCategory(scores, found, weight) ==
    IF Len(found) = 0 THEN scores
    ELSE ScoreCategory(DictSet(scores, found[1].keyword, found[1].count * weight),
                       Tail(found), weight)

RECURSIVE ScoreCategories(_, _)
ScoreCategories(scores, found_keywords) ==
    IF Len(found_keywords) = 0 THEN scores
    ELSE ScoreCategories(
            ScoreCategory(scores, found_keywords[1].found,
                          CategoryWeight(found_keywords[1].category)),
            Tail(found_keywords))

\* _calculate_keyword_scores
calculate_keyword_scores(found_keywords) == ScoreCategories(<<>>, found_keywords)

\* dict.get(key, default) and "key in dict" on a score dict
DictHas(dict, keyword) == \E i \in 1..Len(dict) : dict[i].keyword = keyword
DictGet(dict, keyword, default) ==
    IF DictHas(dict, keyword)
    THEN dict[CHOOSE i \in 1..Len(dict) : dict[i].keyword = keyword].score
    ELSE default

\* self.PM_KEYWORDS['industries']
CategoryKeywords(table, category) ==
    table[CHOOSE c \in 1..Len(table) : table[c].category = category].keywords

\* the first position of s at which sub starts, Len(s) + 1 if none
FirstPosition(s, sub) ==
    IF Contains(sub, s)
    THEN CHOOSE k \in 1..Len(s) : StartsAt(s, k, sub) /\ \A j \in 1..(k - 1) : ~StartsAt(s, j, sub)
    ELSE Len(s) + 1

\* an industry loop that gives the phrase that comes first in the text
FirstInText(phrases, jd_lower) ==
    LET found == {i \in 1..Len(phrases) : Contains(phrases[i], jd_lower)}
    IN  IF found = {} THEN ""
        ELSE phrases[CHOOSE i \in found :
                        \A j \in found :
                            \/ FirstPosition(jd_lower, phrases[i])
                                   < FirstPosition(jd_lower, phrases[j])
                            \/ /\ FirstPosition(jd_lower, phrases[i])
                                      = FirstPosition(jd_lower, phrases[j])
                               /\ i <= j]

\* the industry loop of _extract_company_info: first phrase in table order
RECURSIVE FirstContained(_, _)
FirstContained(phrases, jd_lower) ==
    IF Len(phrases) = 0 THEN ""
    ELSE IF Contains(phrases[1], jd_lower) THEN phrases[1]
    ELSE FirstContained(Tail(phrases), jd_lower)

\* _extract_company_info
extract_company_info(table, jd) ==
    LET jd_lower == Lower(jd)
    IN  [industry |-> FirstContained(CategoryKeywords(table, "industries"), jd_lower),
         size |-> "",
         stage |->
            IF \E term \in {"startup", "early stage", "seed"} : Contains(term, jd_lower)
            THEN "startup"
            ELSE IF \E term \in {"enterprise", "fortune", "large"} : Contains(term, jd_lower)
            THEN "enterprise"
            ELSE "",
         culture |-> <<>>]

\* len(kws) of every category, in category order
FoundCounts(found_keywords) ==
    List([c \in 1..Len(found_keywords) |-> Len(found_keywords[c].found)])

\* a total of the occurrences of the found keywords
TotalOccurrences(found_keywords) ==
    SumSeq(List([c \in 1..Len(found_keywords) |->
                    SumSeq(List([k \in 1..Len(found_keywords[c].found) |->
                                    found_keywords[c].found[k].count]))]))

\* sum(len(kws) for kws in found_keywords.values())
TotalKeywords(found_keywords) == SumSeq(FoundCounts(found_keywords))

\* a summary whose categories are sorted ascending and the result reversed
generate_analysis_summary_reversed(found_keywords, requirements) ==
    LET counts == FoundCounts(found_keywords)
        top_categories ==
            Take(Reverse(SortedDesc(found_keywords,
                                    List([c \in 1..Len(counts) |-> 0 - counts[c]]))), 3)
        names == List([i \in 1..Len(top_categories) |-> top_categories[i].category])
    IN  "Found " \o ToString(TotalKeywords(found_keywords))
            \o " relevant PM keywords. "
        \o "Top focus areas: " \o Join(", ", names) \o ". "
        \o "Identified " \o ToString(Len(requirements)) \o " key requirements."

\* _generate_analysis_summary
generate_analysis_summary(found_keywords, requirements) ==
    LET top_categories ==
            Take(SortedDesc(found_keywords, FoundCounts(found_keywords)), 3)
        names == List([i \in 1..Len(top_categories) |-> top_categories[i].category])
    IN  "Found " \o ToString(TotalKeywords(found_keywords))
            \o " relevant PM keywords. "
        \o "Top focus areas: " \o Join(", ", names) \o ". "
        \o "Identified " \o ToString(Len(requirements)) \o " key requirements."

(***************************************************************************)
(* _extract_requirements: the four regular expressions                     *)
(*    <head>\s*(.*?)(?=\n\s*[A-Z][^:]*:|\n\s*$)     IGNORECASE | DOTALL    *)
(* and the split on  [bullet]\s*|^\s*\d+\.?\s*      MULTILINE.             *)
(* Positions are 1-based; a position Len(s) + 1 is the end of the string.  *)
(***************************************************************************)
\* the first position k >= i that holds no whitespace (\s* from i, greedy)
RECURSIVE SkipSpace(_, _)
SkipSpace(s, i) ==
    IF i <= Len(s) /\ IsSpace(CharAt(s, i)) THEN SkipSpace(s, i + 1) ELSE i

\* \d* from i, greedy
RECURSIVE SkipDigits(_, _)
SkipDigits(s, i) ==
    IF i <= Len(s) /\ IsDigit(CharAt(s, i)) THEN SkipDigits(s, i + 1) ELSE i

\* the lookahead (?=\n\s*[A-Z][^:]*:|\n\s*$) at position e.  Under IGNORECASE
\* [A-Z] matches a letter of either case; [^:]* runs over line breaks, so the
\* ':' may stand anywhere after the letter; $ is the end of the string.
Lookahead(jd, e) ==
    /\ e <= Len(jd)
    /\ CharAt(jd, e) = "\n"
    /\ LET k == SkipSpace(jd, e + 1)
       IN  \/ /\ k <= Len(jd)
              /\ IsLetter(CharAt(jd, k))
              /\ \E c \in (k + 1)..Len(jd) : CharAt(jd, c) = ":"
           \/ k > Len(jd)

NoMatch == [matched |-> FALSE, group |-> "", end |-> 0]

\* the positions of jd at which the lookahead holds
LookaheadPositions(jd) == {e \in 1..Len(jd) : Lookahead(jd, e)}

\* \s*(.*?)(?=...) from the end head_end of a matched head, start being the
\* end of the whitespace after it and ahead the lookahead positions.  \s*
\* takes all the whitespace and the lazy group grows to the first position
\* where the lookahead holds; when there is none, \s* gives whitespace back
\* and the group is empty, ending at the last lookahead position inside it.
TailMatch(jd, head_end, start, ahead) ==
    LET after == {e \in ahead : e >= start}
        inside == {e \in ahead : e >= head_end /\ e < start}
    IN  IF after # {}
        THEN LET e == CHOOSE x \in after : \A y \in after : x <= y
             IN  [matched |-> TRUE, group |-> SubSeq(jd, start, e - 1), end |-> e]
        ELSE IF inside # {}
        THEN LET e == CHOOSE x \in inside : \A y \in inside : x >= y
             IN  [matched |-> TRUE, group |-> "", end |-> e]
        ELSE NoMatch

MatchTail(jd, head_end) ==
    TailMatch(jd, head_end, SkipSpace(jd, head_end), LookaheadPositions(jd))

\* the position after an optional character c at i
Optional(jl, i, c) == IF i <= Len(jl) /\ CharAt(jl, i) = c THEN i + 1 ELSE i

\* <word>s?:? at p, word one of 'requirement', 'qualification'
MatchPlural(jd, jl, p, word) ==
    IF StartsAt(jl, p, word)
    THEN MatchTail(jd, Optional(jl, Optional(jl, p + Len(word), "s"), ":"))
    ELSE NoMatch

\* the first match of a list of attempts, in the order they are made
FirstMatched(attempts) ==
    IF \E i \in 1..Len(attempts) : attempts[i].matched
    THEN attempts[CHOOSE i \in 1..Len(attempts) :
                      /\ attempts[i].matched
                      /\ \A j \in 1..(i - 1) : ~attempts[j].matched]
    ELSE NoMatch

\* need:? and the rest of the pattern at q
MatchNeedAt(jd, jl, q) ==
    IF StartsAt(jl, q, "need")
    THEN MatchTail(jd, Optional(jl, q + Len("need"), ":"))
    ELSE NoMatch

NEED_GAP == 20

\* what you.{0,20}need:? at p: the gap is greedy, 20 characters first
MatchNeed(jd, jl, p) ==
    IF StartsAt(jl, p, "what you")
    THEN FirstMatched(List([g \in 1..(NEED_GAP + 1) |->
            MatchNeedAt(jd, jl, p + Len("what you") + NEED_GAP + 1 - g)]))
    ELSE NoMatch

\* you should have:? at p
MatchShould(jd, jl, p) ==
    IF StartsAt(jl, p, "you should have")
    THEN MatchTail(jd, Optional(jl, p + Len("you should have"), ":"))
    ELSE NoMatch

\* req_patterns[pattern - 1] matched at position p of jd (jl is jd lowercased)
MatchAt(pattern, jd, jl, p) ==
    CASE pattern \in {1, 2} ->
            MatchPlural(jd, jl, p, IF pattern = 1 THEN "requirement" ELSE "qualification")
      [] pattern = 3 -> MatchNeed(jd, jl, p)
      [] pattern = 4 -> MatchShould(jd, jl, p)

\* the characters of the class [...\-\*] of the split pattern.  The source
\* lists three more (the bytes of a mis-decoded bullet sign), which are no
\* characters of the texts of this model.
IsBullet(c) == c \in {"-", "*"}

\* the end of a separator of the split pattern starting at i, or 0
SeparatorEnd(section, i) ==
    IF IsBullet(CharAt(section, i)) THEN SkipSpace(section, i + 1)
    ELSE IF i = 1 \/ CharAt(section, i - 1) = "\n"
    THEN LET k == SkipSpace(section, i)
         IN  IF k <= Len(section) /\ IsDigit(CharAt(section, k))
             THEN SkipSpace(section, Optional(section, SkipDigits(section, k), "."))
             ELSE 0
    ELSE 0

\* the end of the separator at every position of section
SeparatorEnds(section) == List([i \in 1..Len(section) |-> SeparatorEnd(section, i)])

\* re.split(...): the pieces between separators, the current piece starting
\* at piece_start, the next separator being the leftmost one
RECURSIVE SplitFrom(_, _, _)
SplitFrom(section, ends, piece_start) ==
    LET seps == {i \in piece_start..Len(section) : ends[i] > 0}
    IN  IF seps = {} THEN << SubSeq(section, piece_start, Len(section)) >>
        ELSE LET i == CHOOSE x \in seps : \A y \in seps : x <= y
             IN  << SubSeq(section, piece_start, i - 1) >>
                 \o SplitFrom(section, ends, ends[i])

NonEmpty(item) == item # ""

StripAll(items) == List([i \in 1..Len(items) |-> Strip(items[i])])

\* [item.strip() for item in items if item.strip()]
SectionItems(section) ==
    SelectSeq(StripAll(SplitFrom(section, SeparatorEnds(section), 1)), NonEmpty)

\* the match of the pattern at every position of jd
MatchesAt(pattern, jd, jl) == List([p \in 1..Len(jd) |-> MatchAt(pattern, jd, jl, p)])

\* re.finditer(pattern, jd): the items of every match from position p on,
\* the next match being the leftmost one
RECURSIVE ItemsFrom(_, _)
ItemsFrom(matches, p) ==
    LET starts == {k \in p..Len(matches) : matches[k].matched}
    IN  IF starts = {} THEN <<>>
        ELSE LET m == matches[CHOOSE k \in starts : \A x \in starts : k <= x]
             IN  SectionItems(Strip(m.group)) \o ItemsFrom(matches, m.end)

\* the loop over req_patterns, from req_patterns[pattern - 1] on
RECURSIVE PatternItems(_, _, _)
PatternItems(pattern, jd, jl) ==
    IF pattern > 4 THEN <<>>
    ELSE ItemsFrom(MatchesAt(pattern, jd, jl), 1) \o PatternItems(pattern + 1, jd, jl)

MAX_REQUIREMENTS == 10

\* the elements of a list, each at its first place only
RECURSIVE WithoutDuplicates(_)
WithoutDuplicates(seq) ==
    IF Len(seq) = 0 THEN <<>>
    ELSE LET front == WithoutDuplicates(SubSeq(seq, 1, Len(seq) - 1))
         IN  IF \E i \in 1..Len(front) : front[i] = seq[Len(seq)]
             THEN front ELSE Append(front, seq[Len(seq)])

\* an extraction that names every requirement once
extract_requirements_once(jd) ==
    Take(WithoutDuplicates(PatternItems(1, jd, Lower(jd))), 10)

\* _extract_requirements
extract_requirements(jd) == Take(PatternItems(1, jd, Lower(jd)), MAX_REQUIREMENTS)

\* the dict analyze returns for the str jd
AnalysisOf(table, jd) ==
    LET found_keywords == FoundKeywords(table, Lower(jd))
        requirements == extract_requirements(jd)
    IN  [keywords |-> found_keywords,
         keyword_scores |-> calculate_keyword_scores(found_keywords),
         requirements |-> requirements,
         company_info |-> extract_company_info(table, jd),
         analysis_summary |-> generate_analysis_summary(found_keywords, requirements)]

\* a job_description argument: a str, or None
Str(text) == [is_none |-> FALSE, str |-> text]
None == [is_none |-> TRUE, str |-> ""]

\* what stands for the value of a call that raised
NoAnalysis ==
    [keywords |-> <<>>, keyword_scores |-> <<>>, requirements |-> <<>>,
     company_info |-> [industry |-> "", size |-> "", stage |-> "", culture |-> <<>>],
     analysis_summary |-> ""]

HasCategory(table, category) == \E c \in 1..Len(table) : table[c].category = category

\* the exception analyze raises, "" when it returns: None has no lower()
\* (line 93); _extract_company_info indexes PM_KEYWORDS['industries'] (line 156)
AnalyzeRaises(table, job_description) ==
    IF job_description.is_none THEN "AttributeError"
    ELSE IF ~HasCategory(table, "industries") THEN "KeyError"
    ELSE ""

\* JobDescriptionAnalyzer.analyze
analyze(table, job_description) ==
    LET raised == AnalyzeRaises(table, job_description)
    IN  [raised |-> raised,
         value |-> IF raised = "" THEN AnalysisOf(table, job_description.str)
                   ELSE NoAnalysis]

\* the numbers written in ResumeTailor, scores in tenths
PM_TITLE_BONUS == 50
EXACT_MATCH_BONUS == 20
MAX_EXPERIENCES == 5
MAX_SKILLS == 15
TOP_KEYWORDS == 8
SUMMARY_KEYWORDS == 5

(***************************************************************************)
(* Inputs: job descriptions, profiles.                                     *)
(***************************************************************************)

JobTexts == <<
    "",
    "Agile coach: agile, AGILE and Scrum.",
    "Need SQL and MySQL; sql reports",
    "Mobile SaaSaas startup, enterprise API platform and mobile api",
    "Fintech PM\nRequirements:\n- Stakeholder management\n* Data analysis\n2. Jira\nBenefits: none\n",
    "roadmap kanban metrics kpis analytics jira jira figma figma aws aws leadership mentoring b2b b2b",
    "Qualifications:\n* SQL\n* Python" >>

JobDescriptions == {Str(JobTexts[j]) : j \in 1..Len(JobTexts)} \cup {None}

\* a focus_areas argument: None (here the empty list) or a list of phrases
FocusAreas == { <<>>, <<"growth">> }

\* the Experience entries profiles are made of (relevance_score excepted)
ExperiencePool == <<
    [title |-> "Senior Product Manager", company |-> "Acme SaaS",
     duration |-> "2020 - Present",
     achievements |-> <<"Led agile roadmap for mobile platform",
                        "Ran a/b testing with SQL">>,
     skills |-> <<"Jira", "SQL">>],
    [title |-> "Shipment Clerk", company |-> "Docks Ltd",
     duration |-> "2015 - 2016",
     achievements |-> <<"Loaded trucks">>, skills |-> <<>>],
    [title |-> "Software Engineer", company |-> "Fintech Inc",
     duration |-> "2016 - 2018",
     achievements |-> <<"Built api on aws with python">>,
     skills |-> <<"Python", "Docker">>],
    [title |-> "Product Owner", company |-> "Health Co",
     duration |-> "2018 - 2020",
     achievements |-> <<"Managed scrum backlog", "Stakeholder management">>,
     skills |-> <<"Scrum">>],
    [title |-> "Analyst", company |-> "Bank", duration |-> "2014",
     achievements |-> <<"Built API reports">>, skills |-> <<"Excel">>],
    [title |-> "Intern", company |-> "Shop", duration |-> "2013",
     achievements |-> <<"Tested the mobile app">>, skills |-> <<>>] >>

SkillPool == <<
    "MySQL", "SQL", "Python", "Agile", "Excel", "Leadership", "Roadmapping",
    "Jira", "Scrum", "Figma", "Public Speaking", "AWS", "Kanban", "Docker",
    "Tableau", "API", "Mentoring", "Writing" >>

\* element i of a list of n pool entries starting after the first r
Cycle(pool, r, i) == pool[((i - 1 + r) % Len(pool)) + 1]

Min(a, b) == IF a < b THEN a ELSE b

\* the profiles: n experiences and up to 3n skills, taken from the pools
\* starting after the first r entries
Rotations == {0, 2}

\* the numbers of experiences of the profiles: none, a few, as many as
\* tailor_resume keeps, and more
ProfileSizes == {0, 3, MAX_EXPERIENCES, MaxExps}

\* Experience(**exp_data): relevance_score defaults to 0.0
NewExperience(data) ==
    [title |-> data.title, company |-> data.company, duration |-> data.duration,
     achievements |-> data.achievements, skills |-> data.skills,
     relevance_score |-> 0]

\* the heap of Experience objects load_user_profile creates: exp_objs[id] is
\* the object with reference id
LoadedExperiences(n, r) ==
    List([id \in 1..n |-> NewExperience(Cycle(ExperiencePool, r, id))])

\* load_user_profile: the UserProfile, experiences being references
LoadedProfile(n, r) ==
    [name |-> "Jai", email |-> "jai@example.com", phone |-> "555-0100",
     linkedin |-> "linkedin.com/in/jai", location |-> "Pune",
     summary |-> "Product leader with 8 years of experience.",
     experiences |-> List([i \in 1..n |-> i]),
     education |-> << [degree |-> "MBA", institution |-> "IIM", year |-> "2012",
                       details |-> <<"Dean's list">>] >>,
     skills |-> List([i \in 1..Min(MaxSkills, 3 * n) |-> Cycle(SkillPool, r, i)]),
     certifications |-> <<"CSPO">>,
     languages |-> <<"English", "Hindi">>]

\* analyze over the tables and job descriptions of the model
Analyses ==
    Tabulated([x \in (KeywordTables \cup NoKeywordTables) \X JobDescriptions |->
                  analyze(x[1], x[2])])

\* the keyword score maps analyze produces
KeywordScoreMaps == {Analyses[x].value.keyword_scores : x \in DOMAIN Analyses}

(***************************************************************************)
(* ResumeTailor.                                                           *)
(***************************************************************************)
\* exp_text of _score_experiences, line 251
ExpText(exp) ==
    Lower(exp.title \o " " \o exp.company \o " " \o Join(" ", exp.achievements)
          \o " " \o Join(" ", exp.skills))

\* the keyword loop of _score_experiences, lines 254-256
RECURSIVE KeywordMatchScore(_, _)
KeywordMatchScore(keyword_scores, exp_text) ==
    IF Len(keyword_scores) = 0 THEN 0
    ELSE (IF Contains(keyword_scores[1].keyword, exp_text)
          THEN keyword_scores[1].score ELSE 0)
         + KeywordMatchScore(Tail(keyword_scores), exp_text)

\* a bonus only for a title that is one of the three terms
HasPMTitleExactly(title) ==
    Lower(title) \in {"product manager", "product owner", "pm"}

\* line 259
HasPMTitle(title) ==
    \E t \in {"product manager", "product owner", "pm"} : Contains(t, Lower(title))

\* the score _score_experiences computes for exp, lines 250-260
ExperienceScore(exp, keyword_scores) ==
    KeywordMatchScore(keyword_scores, ExpText(exp))
    + (IF HasPMTitle(exp.title) THEN PM_TITLE_BONUS ELSE 0)

\* ExperienceScore over the experiences and score maps of the model
ExperienceScores ==
    Tabulated([keyword_scores \in KeywordScoreMaps |->
        Tabulated([exp \in {NewExperience(ExperiencePool[p]) : p \in 1..Len(ExperiencePool)} |->
            ExperienceScore(exp, keyword_scores)])])

\* a loop that scores only the experiences tailor_resume will keep
ScoredObjectsOfFirst(objs, experiences, keyword_scores) ==
    List([id \in 1..Len(objs) |->
        IF \E i \in 1..Min(MAX_EXPERIENCES, Len(experiences)) : experiences[i] = id
        THEN [objs[id] EXCEPT !.relevance_score =
                  ExperienceScores[keyword_scores][[objs[id] EXCEPT !.relevance_score = 0]]]
        ELSE objs[id]])

\* the heap after the loop of _score_experiences: exp.relevance_score = score
\* (line 262) on every experience of the profile, whatever it was before
ScoredObjects(objs, experiences, keyword_scores) ==
    LET scores == ExperienceScores[keyword_scores]
    IN  List([id \in 1..Len(objs) |->
            IF \E i \in 1..Len(experiences) : experiences[i] = id
            THEN [objs[id] EXCEPT !.relevance_score =
                      scores[[objs[id] EXCEPT !.relevance_score = 0]]]
            ELSE objs[id]])

\* a ranking that sorts ascending and reverses the result: ties come out in
\* reverse input order
score_experiences_reversed(objs, experiences, keyword_scores) ==
    LET scored == ScoredObjects(objs, experiences, keyword_scores)
    IN  Reverse(SortedDesc(experiences,
                           List([i \in 1..Len(experiences) |->
                                    0 - scored[experiences[i]].relevance_score])))

\* the list _score_experiences returns (references), line 265
score_experiences(objs, experiences, keyword_scores) ==
    LET scored == ScoredObjects(objs, experiences, keyword_scores)
    IN  SortedDesc(experiences,
                   List([i \in 1..Len(experiences) |-> scored[experiences[i]].relevance_score]))

\* the eight highest-scoring keywords, those of equal score in the reverse of
\* the order of the score map
TopKeywordsTiesReversed(keyword_scores) ==
    Take(Reverse(SortedDesc(keyword_scores,
                            List([i \in 1..Len(keyword_scores) |->
                                     0 - keyword_scores[i].score]))),
         8)

\* top_keywords of _optimize_summary, line 270
TopKeywords(keyword_scores) ==
    Take(SortedDesc(keyword_scores,
                    List([i \in 1..Len(keyword_scores) |-> keyword_scores[i].score])),
         TOP_KEYWORDS)

HasTheme(top_keywords, a, b) ==
    \E i \in 1..Len(top_keywords) :
        Contains(a, top_keywords[i].keyword) \/ Contains(b, top_keywords[i].keyword)

\* themes of _optimize_summary, lines 273-279
Themes(top_keywords) ==
    (IF HasTheme(top_keywords, "agile", "scrum")
     THEN <<"agile methodologies">> ELSE <<>>)
    \o (IF HasTheme(top_keywords, "data", "analytics")
        THEN <<"data-driven decision making">> ELSE <<>>)
    \o (IF HasTheme(top_keywords, "stakeholder", "cross-functional")
        THEN <<"stakeholder management">> ELSE <<>>)

\* a summary that counts the focus areas it is given among the themes
optimize_summary_with_focus_themes(base_summary, keyword_scores, focus_areas) ==
    LET top_keywords == TopKeywords(keyword_scores)
        themes == Themes(top_keywords) \o focus_areas
        first == Take(top_keywords, SUMMARY_KEYWORDS)
        keyword_phrase == Join(", ", [i \in 1..Len(first) |-> first[i].keyword])
    IN  base_summary \o " Specialized in " \o keyword_phrase
        \o (IF Len(themes) > 0
            THEN " with proven expertise in " \o Join(", ", themes) ELSE "")
        \o "."

\* a summary that names the focus areas it is given
optimize_summary_naming_focus(base_summary, keyword_scores, focus_areas) ==
    base_summary \o " Specialized in "
    \o Join(", ", [i \in 1..Len(Take(TopKeywords(keyword_scores), SUMMARY_KEYWORDS)) |->
                      TopKeywords(keyword_scores)[i].keyword] \o focus_areas)
    \o (IF Len(Themes(TopKeywords(keyword_scores))) > 0
        THEN " with proven expertise in " \o Join(", ", Themes(TopKeywords(keyword_scores)))
        ELSE "")
    \o "."

\* a summary whose themes come from every keyword of the score map
optimize_summary_themes_of_all(base_summary, keyword_scores, focus_areas) ==
    LET top_keywords == TopKeywords(keyword_scores)
        themes == Themes(keyword_scores)
        first == Take(top_keywords, SUMMARY_KEYWORDS)
        keyword_phrase == Join(", ", [i \in 1..Len(first) |-> first[i].keyword])
    IN  base_summary \o " Specialized in " \o keyword_phrase
        \o (IF Len(themes) > 0
            THEN " with proven expertise in " \o Join(", ", themes) ELSE "")
        \o "."

\* _optimize_summary
optimize_summary(base_summary, keyword_scores, focus_areas) ==
    LET top_keywords == TopKeywords(keyword_scores)
        themes == Themes(top_keywords)
        first == Take(top_keywords, SUMMARY_KEYWORDS)
        keyword_phrase == Join(", ", [i \in 1..Len(first) |-> first[i].keyword])
    IN  base_summary \o " Specialized in " \o keyword_phrase
        \o (IF Len(themes) > 0
            THEN " with proven expertise in " \o Join(", ", themes) ELSE "")
        \o "."

\* a score for every skill that holds a keyword as a substring
SkillScorePartial(skill, keyword_scores) ==
    LET matches == SelectSeq(keyword_scores, LAMBDA e : Contains(e.keyword, Lower(skill)))
    IN  IF Len(matches) > 0 THEN matches[1].score + EXACT_MATCH_BONUS ELSE 0

\* the score _prioritize_skills gives a skill, lines 302-305
SkillScore(skill, keyword_scores) ==
    DictGet(keyword_scores, Lower(skill), 0)
    + (IF DictHas(keyword_scores, Lower(skill)) THEN EXACT_MATCH_BONUS ELSE 0)

\* SkillScore over the skills and score maps of the model
SkillScores ==
    Tabulated([keyword_scores \in KeywordScoreMaps |->
        Tabulated([skill \in {SkillPool[p] : p \in 1..Len(SkillPool)} |->
            SkillScore(skill, keyword_scores)])])

\* a prioritization that sorts ascending and reverses the result
prioritize_skills_reversed(skills, keyword_scores) ==
    Reverse(SortedDesc(skills,
                       List([i \in 1..Len(skills) |->
                                0 - SkillScores[keyword_scores][skills[i]]])))

\* a prioritization that names every skill once
prioritize_skills_distinct(skills, keyword_scores) ==
    WithoutDuplicates(SortedDesc(skills,
                                 List([i \in 1..Len(skills) |->
                                          SkillScores[keyword_scores][skills[i]]])))

\* _prioritize_skills
prioritize_skills(skills, keyword_scores) ==
    LET scores == SkillScores[keyword_scores]
    IN  SortedDesc(skills, List([i \in 1..Len(skills) |-> scores[skills[i]]]))

\* the last category with the largest number of found keywords
LastTopCategory(found_keywords) ==
    LET counts == FoundCounts(found_keywords)
        c == CHOOSE c \in 1..Len(counts) :
                /\ \A d \in 1..Len(counts) : counts[d] <= counts[c]
                /\ \A d \in (c + 1)..Len(counts) : counts[d] < counts[c]
    IN  found_keywords[c].category

\* max(jd_analysis['keywords'].items(), key=lambda x: len(x[1]))[0]: the
\* first category with the largest number of found keywords
TopCategory(found_keywords) ==
    LET counts == FoundCounts(found_keywords)
        c == CHOOSE c \in 1..Len(counts) :
                /\ \A d \in 1..Len(counts) : counts[d] <= counts[c]
                /\ \A d \in 1..(c - 1) : counts[d] < counts[c]
    IN  found_keywords[c].category

\* _generate_optimization_notes (max() of an empty dict raises ValueError)
generate_optimization_notes(found_keywords) ==
    << "Optimized for " \o ToString(TotalKeywords(found_keywords))
           \o " relevant PM keywords from job description",
       "Emphasized " \o ReplaceChar(TopCategory(found_keywords), "_", " ")
           \o " based on job requirements",
       "Reordered experiences by relevance score",
       "Prioritized skills matching job description" >>

NoResume ==
    [personal_info |-> [name |-> "", email |-> "", phone |-> "", linkedin |-> "",
                        location |-> ""],
     summary |-> "", experiences |-> <<>>, skills |-> <<>>, education |-> <<>>,
     certifications |-> <<>>, job_analysis |-> NoAnalysis,
     optimization_notes |-> <<>>]

\* _optimize_summary and _generate_optimization_notes over the analyses of the
\* model
Summaries ==
    Tabulated([x \in {LoadedProfile(0, 0).summary} \X KeywordScoreMaps \X FocusAreas |->
                  optimize_summary(x[1], x[2], x[3])])

OptimizationNotes ==
    Tabulated([found_keywords \in {Analyses[x].value.keywords :
                                      x \in {y \in DOMAIN Analyses : Analyses[y].raised = ""}} |->
                  generate_optimization_notes(found_keywords)])

\* the exception tailor_resume raises, "" when it returns
TailorRaises(table, job_description) ==
    IF AnalyzeRaises(table, job_description) # ""
    THEN AnalyzeRaises(table, job_description)
    ELSE IF Len(table) = 0 THEN "ValueError"
    ELSE ""

\* the dict tailor_resume builds, lines 225-240; experiences are references
TailoredResume(profile, jd_analysis, scored_experiences, summary, skills) ==
    [personal_info |-> [name |-> profile.name, email |-> profile.email,
                        phone |-> profile.phone, linkedin |-> profile.linkedin,
                        location |-> profile.location],
     summary |-> summary,
     experiences |-> Take(scored_experiences, MAX_EXPERIENCES),
     skills |-> Take(skills, MAX_SKILLS),
     education |-> profile.education,
     certifications |-> profile.certifications,
     job_analysis |-> jd_analysis,
     optimization_notes |-> OptimizationNotes[jd_analysis.keywords]]

(***************************************************************************)
(* State.                                                                  *)
(***************************************************************************)
VARIABLES
    PM_KEYWORDS,    \* the analyzer's keyword table (JobDescriptionAnalyzer.PM_KEYWORDS)
    all_keywords,   \* JobDescriptionAnalyzer.all_keywords
    user_profile,   \* ResumeTailor.user_profile, the caller's UserProfile
    exp_objs,       \* the Experience objects, by reference
    analysis,       \* the last call of analyzer.analyze by the caller and its outcome
    tailored,       \* the last call of tailor_resume and its outcome
    calls,          \* the tailor_resume calls of the threads, step by step
    config,         \* the config module: RESUME_CONFIG and KEYWORD_CONFIG
    validation,     \* the last call of utils.validate_user_profile and its outcome
    extracted,      \* the last call of _extract_requirements and its outcome
    company,        \* the last call of _extract_company_info and its outcome
    parsed,         \* the last call of ResumeFormatter.parse_resume_text and its outcome
    merging         \* merge_keyword_categories: the call, its arguments and its result

vars ==
    <<PM_KEYWORDS, all_keywords, user_profile, exp_objs, analysis, tailored,
      calls,
      config,
      validation,
      extracted,
      company,
      parsed,
      merging>>

NotAnalyzed ==
    [called |-> FALSE, job_description |-> None, raised |-> "", value |-> NoAnalysis]

\* no call of parse_resume_text yet
NotParsed == [called |-> FALSE, resume_text |-> "", value |-> <<>>]

\* no call of merge_keyword_categories yet; base_keywords and custom_keywords
\* are the caller's two dicts, base_given and custom_given what they held
\* when the call began
NotMerged ==
    [called |-> FALSE, base_keywords |-> <<>>, custom_keywords |-> <<>>,
     base_given |-> <<>>, custom_given |-> <<>>, value |-> <<>>]

\* no call of _extract_company_info yet
NoCompanyInfo == [called |-> FALSE, jd |-> "", value |-> <<>>]

\* no call of _extract_requirements yet
NotExtracted == [called |-> FALSE, jd |-> "", value |-> <<>>]

\* repeat: the call before returned for the same job description and every
\* relevance_score was 0 again when this one was made
NotTailored ==
    [called |-> FALSE, job_description |-> None, focus_areas |-> <<>>,
     raised |-> "", repeat |-> FALSE,
     scored_experiences |-> <<>>, relevance_scores |-> <<>>,
     prioritized_skills |-> <<>>, resume |-> NoResume]

\* config.RESUME_CONFIG and config.KEYWORD_CONFIG as written in config.py:
\* the limits, weights and bonuses of the configuration, scores in tenths
DEFAULT_CONFIG ==
    [max_experiences |-> 5, max_skills |-> 15,
     category_weights |-> [core_skills |-> 10, technical_skills |-> 8,
                           soft_skills |-> 6, industries |-> 7],
     pm_title_bonus |-> 50, keyword_match_bonus |-> 20]

(***************************************************************************)
(* utils.validate_user_profile.  A value of the profile dict is modelled   *)
(* with its kind: "absent" (no such key), "none" (None) or "value".        *)
(***************************************************************************)
Value(val) == [kind |-> "value", val |-> val]
AbsentStr == [kind |-> "absent", val |-> ""]
NoneStr == [kind |-> "none", val |-> ""]
AbsentList == [kind |-> "absent", val |-> <<>>]
NoneList == [kind |-> "none", val |-> <<>>]

\* config.VALIDATION_RULES
VALIDATION_RULES ==
    [required_profile_fields |->
         <<"name", "email", "phone", "summary", "experiences", "skills">>,
     min_experiences |-> 2, min_skills |-> 5,
     max_summary_words |-> 100, max_achievement_words |-> 25]

\* field not in profile_data or not profile_data[field]: None, '' and [] are
\* false
MissingOrFalse(field) == field.kind # "value" \/ Len(field.val) = 0

\* the loop over the required fields, from field f on (lines 19-21)
RECURSIVE MissingFieldErrors(_, _)
MissingFieldErrors(profile_data, f) ==
    IF f > Len(VALIDATION_RULES.required_profile_fields) THEN <<>>
    ELSE (IF MissingOrFalse(profile_data[VALIDATION_RULES.required_profile_fields[f]])
          THEN << "Missing required field: " \o VALIDATION_RULES.required_profile_fields[f] >>
          ELSE <<>>)
         \o MissingFieldErrors(profile_data, f + 1)

\* dict.get(key, default): the default only when the key is absent
GetOr(field, default) == IF field.kind = "absent" THEN Value(default) ELSE field

\* len(text.split()): the number of runs of characters that are no whitespace
WordCount(text) ==
    Cardinality({i \in 1..Len(text) :
        /\ ~IsSpace(CharAt(text, i))
        /\ i = 1 \/ IsSpace(CharAt(text, i - 1))})

\* the loop over the achievements of experience i, from achievement j on
RECURSIVE AchievementErrorsOf(_, _, _)
AchievementErrorsOf(achievements, i, j) ==
    IF j > Len(achievements) THEN <<>>
    ELSE (IF WordCount(achievements[j]) > VALIDATION_RULES.max_achievement_words
          THEN << "Experience " \o ToString(i) \o ", achievement " \o ToString(j)
                  \o " too long: " \o ToString(WordCount(achievements[j])) \o " words" >>
          ELSE <<>>)
         \o AchievementErrorsOf(achievements, i, j + 1)

\* the loop over the experiences, from experience i on (lines 40-45)
RECURSIVE AchievementErrors(_, _)
AchievementErrors(experiences, i) ==
    IF i > Len(experiences) THEN <<>>
    ELSE AchievementErrorsOf(GetOr(experiences[i].achievements, <<>>).val, i, 1)
         \o AchievementErrors(experiences, i + 1)

\* the checks of lines 24-37 on values that are no None
CountErrors(experiences, skills, summary) ==
    (IF Len(experiences) < VALIDATION_RULES.min_experiences
     THEN << "At least " \o ToString(VALIDATION_RULES.min_experiences)
             \o " experiences required" >>
     ELSE <<>>)
    \o (IF Len(skills) < VALIDATION_RULES.min_skills
        THEN << "At least " \o ToString(VALIDATION_RULES.min_skills) \o " skills required" >>
        ELSE <<>>)
    \o (IF WordCount(summary) > VALIDATION_RULES.max_summary_words
        THEN << "Summary too long: " \o ToString(WordCount(summary)) \o " words (max: "
                \o ToString(VALIDATION_RULES.max_summary_words) \o ")" >>
        ELSE <<>>)

\* the exception validate_user_profile raises, "" when it returns: len(None)
\* (lines 25, 30), None.split() (line 35), iteration over None (line 42)
ValidateRaises(experiences, skills, summary) ==
    IF experiences.kind = "none" THEN "TypeError"
    ELSE IF skills.kind = "none" THEN "TypeError"
    ELSE IF summary.kind = "none" THEN "AttributeError"
    ELSE IF \E i \in 1..Len(experiences.val) : experiences.val[i].achievements.kind = "none"
    THEN "TypeError"
    ELSE ""

\* the errors list at the return of validate_user_profile
ValidationErrors(profile_data, experiences, skills, summary) ==
    MissingFieldErrors(profile_data, 1)
    \o CountErrors(experiences, skills, summary)
    \o AchievementErrors(experiences, 1)

\* what validate_user_profile gives for the values it reads with dict.get
ValidationOf(profile_data, experiences, skills, summary, raised) ==
    [raised |-> raised,
     errors |-> IF raised = ""
                THEN ValidationErrors(profile_data, experiences.val, skills.val, summary.val)
                ELSE <<>>,
     valid |-> /\ raised = ""
               /\ Len(ValidationErrors(profile_data, experiences.val, skills.val,
                                       summary.val)) = 0]

\* utils.validate_user_profile
validate_user_profile(profile_data) ==
    ValidationOf(profile_data,
                 GetOr(profile_data.experiences, <<>>),
                 GetOr(profile_data.skills, <<>>),
                 GetOr(profile_data.summary, ""),
                 ValidateRaises(GetOr(profile_data.experiences, <<>>),
                                GetOr(profile_data.skills, <<>>),
                                GetOr(profile_data.summary, "")))

\* no call of validate_user_profile yet
NotValidated ==
    [called |-> FALSE,
     profile_data |-> [name |-> AbsentStr, email |-> AbsentStr, phone |-> AbsentStr,
                       summary |-> AbsentStr, experiences |-> AbsentList,
                       skills |-> AbsentList],
     raised |-> "", valid |-> FALSE, errors |-> <<>>]

\* the threads that call tailor_resume on the one ResumeTailor
Threads == {1, 2}

\* a thread that has not called tailor_resume.  pc is the thread's place in
\* the call, i the index of its loop, keys the sort keys read so far
Idle ==
    [pc |-> "idle", job_description |-> None, i |-> 0, keys |-> <<>>,
     raised |-> "", scored_experiences |-> <<>>, relevance_scores |-> <<>>]

NoCalls == [t \in Threads |-> Idle]

\* ResumeTailor(load_user_profile(path)) with an analyzer over one of the tables
Init ==
    \E table \in KeywordTables, n \in ProfileSizes, r \in Rotations :
        /\ PM_KEYWORDS = table
        /\ all_keywords = AllKeywords(table)
        /\ user_profile = LoadedProfile(n, r)
        /\ exp_objs = LoadedExperiences(n, r)
        /\ analysis = NotAnalyzed
        /\ tailored = NotTailored
        /\ calls = NoCalls
        /\ config = DEFAULT_CONFIG
        /\ validation = NotValidated
        /\ extracted = NotExtracted
        /\ company = NoCompanyInfo
        /\ parsed = NotParsed
        /\ merging = NotMerged

\* the caller calls tailor.analyzer.analyze(job_description)
CallAnalyze(job_description) ==
    LET out == Analyses[<<PM_KEYWORDS, job_description>>]
    IN  /\ analysis' = [called |-> TRUE, job_description |-> job_description,
                        raised |-> out.raised, value |-> out.value]
        /\ UNCHANGED <<PM_KEYWORDS, all_keywords, user_profile, exp_objs, tailored, calls, config, validation, extracted, company, parsed, merging>>

\* the record of a tailor_resume call that raised
Raised(job_description, raised) ==
    [NotTailored EXCEPT !.called = TRUE, !.job_description = job_description,
                        !.raised = raised]

\* every Experience has the relevance_score it is created with
AllScoresReset == \A id \in 1..Len(exp_objs) : exp_objs[id].relevance_score = 0

\* the caller calls tailor.tailor_resume(job_description, focus_areas)
CallTailorResume(job_description, focus_areas) ==
    LET jd_analysis == Analyses[<<PM_KEYWORDS, job_description>>]
        raised == TailorRaises(PM_KEYWORDS, job_description)
        keyword_scores == jd_analysis.value.keyword_scores
        scored == ScoredObjects(exp_objs, user_profile.experiences, keyword_scores)
        scored_experiences ==
            score_experiences(exp_objs, user_profile.experiences, keyword_scores)
        optimized_summary ==
            Summaries[<<user_profile.summary, keyword_scores, focus_areas>>]
        prioritized_skills == prioritize_skills(user_profile.skills, keyword_scores)
    IN  /\ exp_objs' = IF jd_analysis.raised = "" THEN scored ELSE exp_objs
        /\ tailored' =
            IF raised # "" THEN Raised(job_description, raised)
            ELSE [called |-> TRUE, job_description |-> job_description,
                  focus_areas |-> focus_areas, raised |-> "",
                  repeat |-> /\ tailored.called /\ tailored.raised = ""
                             /\ tailored.job_description = job_description
                             /\ AllScoresReset,
                  scored_experiences |-> scored_experiences,
                  relevance_scores |->
                      List([i \in 1..Len(scored_experiences) |->
                          scored[scored_experiences[i]].relevance_score]),
                  prioritized_skills |-> prioritized_skills,
                  resume |-> TailoredResume(user_profile, jd_analysis.value,
                                            scored_experiences, optimized_summary,
                                            prioritized_skills)]
        /\ UNCHANGED <<PM_KEYWORDS, all_keywords, user_profile, analysis, calls, config, validation, extracted, company, parsed, merging>>

\* the caller sets relevance_score back to the dataclass default between calls
ResetRelevanceScores ==
    /\ ~AllScoresReset
    /\ exp_objs' = [id \in 1..Len(exp_objs) |-> [exp_objs[id] EXCEPT !.relevance_score = 0]]
    /\ UNCHANGED <<PM_KEYWORDS, all_keywords, user_profile, analysis, tailored, calls, config, validation, extracted, company, parsed, merging>>

Next ==
    \/ \E job_description \in JobDescriptions : CallAnalyze(job_description)
    \/ \E job_description \in JobDescriptions, focus_areas \in FocusAreas :
            CallTailorResume(job_description, focus_areas)
    \/ ResetRelevanceScores

Spec == Init /\ [][Next]_vars

\* the same program with an analyzer over a keyword table without entries
InitNoKeywords ==
    \E table \in NoKeywordTables, n \in ProfileSizes, r \in Rotations :
        /\ PM_KEYWORDS = table
        /\ all_keywords = AllKeywords(table)
        /\ user_profile = LoadedProfile(n, r)
        /\ exp_objs = LoadedExperiences(n, r)
        /\ analysis = NotAnalyzed
        /\ tailored = NotTailored
        /\ calls = NoCalls
        /\ config = DEFAULT_CONFIG
        /\ validation = NotValidated
        /\ extracted = NotExtracted
        /\ company = NoCompanyInfo
        /\ parsed = NotParsed
        /\ merging = NotMerged

SpecNoKeywords == InitNoKeywords /\ [][Next]_vars

(***************************************************************************)
(* tailor_resume called by two threads on the one ResumeTailor, a step     *)
(* being one write or one read of an Experience's relevance_score.         *)
(***************************************************************************)
\* the profiles of the threaded runs
ThreadedSizes == {0, 3}

\* the keyword score map of the thread's call
ThreadScores(t) == Analyses[<<PM_KEYWORDS, calls[t].job_description>>].value.keyword_scores

\* the number of experiences of the profile
NumExperiences == Len(user_profile.experiences)

\* thread t calls tailor_resume(job_description): analyze, line 213
StartTailorResume(t, job_description) ==
    /\ calls[t].pc = "idle"
    /\ calls' = [calls EXCEPT ![t] =
          IF Analyses[<<PM_KEYWORDS, job_description>>].raised # ""
          THEN [Idle EXCEPT !.pc = "done", !.job_description = job_description,
                            !.raised = Analyses[<<PM_KEYWORDS, job_description>>].raised]
          ELSE [Idle EXCEPT !.pc = IF NumExperiences = 0 THEN "sort" ELSE "score",
                            !.job_description = job_description, !.i = 1]]
    /\ UNCHANGED <<PM_KEYWORDS, all_keywords, user_profile, exp_objs, analysis, tailored, config, validation, extracted, company, parsed, merging>>

\* one turn of the loop of _score_experiences, lines 249-263: the score of
\* experience i is computed and written to the object
ScoreNext(t) ==
    /\ calls[t].pc = "score"
    /\ exp_objs' = [exp_objs EXCEPT ![user_profile.experiences[calls[t].i]].relevance_score =
          ExperienceScores[ThreadScores(t)][
              [exp_objs[user_profile.experiences[calls[t].i]] EXCEPT !.relevance_score = 0]]]
    /\ calls' = [calls EXCEPT ![t] =
          IF calls[t].i = NumExperiences
          THEN [calls[t] EXCEPT !.pc = "keys", !.i = 1]
          ELSE [calls[t] EXCEPT !.i = calls[t].i + 1]]
    /\ UNCHANGED <<PM_KEYWORDS, all_keywords, user_profile, analysis, tailored, config, validation, extracted, company, parsed, merging>>

\* sorted(..., key=lambda x: x.relevance_score), line 265: the key of element
\* i is read from the object
KeyNext(t) ==
    /\ calls[t].pc = "keys"
    /\ calls' = [calls EXCEPT ![t] =
          [calls[t] EXCEPT
              !.keys = Append(calls[t].keys,
                              exp_objs[user_profile.experiences[calls[t].i]].relevance_score),
              !.pc = IF calls[t].i = NumExperiences THEN "sort" ELSE "keys",
              !.i = IF calls[t].i = NumExperiences THEN 1 ELSE calls[t].i + 1]]
    /\ UNCHANGED <<PM_KEYWORDS, all_keywords, user_profile, exp_objs, analysis, tailored, config, validation, extracted, company, parsed, merging>>

\* the list is sorted by the keys read and tailor_resume returns it; the
\* relevance scores of the result are those of the objects it refers to
SortAndReturn(t) ==
    /\ calls[t].pc = "sort"
    /\ calls' = [calls EXCEPT ![t] =
          [calls[t] EXCEPT
              !.pc = "done",
              !.scored_experiences = SortedDesc(user_profile.experiences, calls[t].keys),
              !.relevance_scores =
                  List([i \in 1..NumExperiences |->
                      exp_objs[SortedDesc(user_profile.experiences, calls[t].keys)[i]]
                          .relevance_score])]]
    /\ UNCHANGED <<PM_KEYWORDS, all_keywords, user_profile, exp_objs, analysis, tailored, config, validation, extracted, company, parsed, merging>>

InitThreaded ==
    \E n \in ThreadedSizes, r \in Rotations :
        /\ PM_KEYWORDS = BASE_PM_KEYWORDS
        /\ all_keywords = AllKeywords(BASE_PM_KEYWORDS)
        /\ user_profile = LoadedProfile(n, r)
        /\ exp_objs = LoadedExperiences(n, r)
        /\ analysis = NotAnalyzed
        /\ tailored = NotTailored
        /\ calls = NoCalls
        /\ config = DEFAULT_CONFIG
        /\ validation = NotValidated
        /\ extracted = NotExtracted
        /\ company = NoCompanyInfo
        /\ parsed = NotParsed
        /\ merging = NotMerged

NextThreaded ==
    \E t \in Threads :
        \/ \E job_description \in JobDescriptions : StartTailorResume(t, job_description)
        \/ ScoreNext(t)
        \/ KeyNext(t)
        \/ SortAndReturn(t)

SpecThreaded == InitThreaded /\ [][NextThreaded]_vars

(***************************************************************************)
(* The program run with the configuration module changed.                  *)
(***************************************************************************)
\* the configurations: config.py as written, and one value changed at a time
Configurations ==
    { DEFAULT_CONFIG,
      [DEFAULT_CONFIG EXCEPT !.max_experiences = 3],
      [DEFAULT_CONFIG EXCEPT !.max_skills = 10],
      [DEFAULT_CONFIG EXCEPT !.pm_title_bonus = 30],
      [DEFAULT_CONFIG EXCEPT !.category_weights.core_skills = 5] }

InitConfigured ==
    \E configuration \in Configurations, r \in Rotations :
        /\ PM_KEYWORDS = BASE_PM_KEYWORDS
        /\ all_keywords = AllKeywords(BASE_PM_KEYWORDS)
        /\ user_profile = LoadedProfile(MaxExps, r)
        /\ exp_objs = LoadedExperiences(MaxExps, r)
        /\ analysis = NotAnalyzed
        /\ tailored = NotTailored
        /\ calls = NoCalls
        /\ config = configuration
        /\ validation = NotValidated
        /\ extracted = NotExtracted
        /\ company = NoCompanyInfo
        /\ parsed = NotParsed
        /\ merging = NotMerged

SpecConfigured == InitConfigured /\ [][Next]_vars

(***************************************************************************)
(* validate_user_profile called on profile dicts.                          *)
(***************************************************************************)
\* a text of n words
Sentence(n) == Join(" ", [i \in 1..n |-> "w"])

\* an experience dict with the given achievements
ExperienceData(achievements) == [title |-> "PM", achievements |-> achievements]

\* the values of the fields of the profile dicts
NameValues == {AbsentStr, NoneStr, Value(""), Value("Jai")}
EmailValues == {AbsentStr, Value("jai@example.com")}
PhoneValues == {Value(""), Value("555-0100")}
SummaryValues ==
    {AbsentStr, NoneStr, Value(""),
     Value(Sentence(VALIDATION_RULES.max_summary_words)),
     Value(Sentence(VALIDATION_RULES.max_summary_words + 1))}
ExperiencesValues ==
    {AbsentList, NoneList, Value(<<>>),
     Value(<< ExperienceData(Value(<<Sentence(VALIDATION_RULES.max_achievement_words + 1)>>)) >>),
     Value(<< ExperienceData(Value(<<Sentence(VALIDATION_RULES.max_achievement_words)>>)),
              ExperienceData(AbsentList) >>),
     Value(<< ExperienceData(Value(<<"Led  the\troadmap\n",
                                     Sentence(VALIDATION_RULES.max_achievement_words + 1)>>)),
              ExperienceData(Value(<<>>)),
              ExperienceData(Value(<<Sentence(VALIDATION_RULES.max_achievement_words + 2)>>)) >>),
     Value(<< ExperienceData(Value(<<"Shipped">>)), ExperienceData(NoneList) >>)}
SkillsValues ==
    {AbsentList, NoneList, Value(<<>>),
     Value(Take(SkillPool, VALIDATION_RULES.min_skills - 1)),
     Value(Take(SkillPool, VALIDATION_RULES.min_skills))}

\* the profile dicts validate_user_profile is called with
ProfileDatas ==
    [name : NameValues, email : EmailValues, phone : PhoneValues,
     summary : SummaryValues, experiences : ExperiencesValues, skills : SkillsValues]

\* the caller calls validate_user_profile(profile_data), once in a run
CallValidateUserProfile(profile_data) ==
    /\ ~validation.called
    /\ validation' = [called |-> TRUE, profile_data |-> profile_data]
                     @@ validate_user_profile(profile_data)
    /\ UNCHANGED <<PM_KEYWORDS, all_keywords, user_profile, exp_objs, analysis, tailored,
                   calls, config, extracted, company, parsed, merging>>

InitValidation ==
    /\ PM_KEYWORDS = BASE_PM_KEYWORDS
    /\ all_keywords = AllKeywords(BASE_PM_KEYWORDS)
    /\ user_profile = LoadedProfile(0, 0)
    /\ exp_objs = LoadedExperiences(0, 0)
    /\ analysis = NotAnalyzed
    /\ tailored = NotTailored
    /\ calls = NoCalls
    /\ config = DEFAULT_CONFIG
    /\ validation = NotValidated
    /\ extracted = NotExtracted
    /\ company = NoCompanyInfo
    /\ parsed = NotParsed
    /\ merging = NotMerged

NextValidation == \E profile_data \in ProfileDatas : CallValidateUserProfile(profile_data)

SpecValidation == InitValidation /\ [][NextValidation]_vars

(***************************************************************************)
(* _extract_requirements on job texts with requirement sections.           *)
(***************************************************************************)

\* the lines of the items of a first and of a second section
ItemLines == <<
    "\n- SQL", "\n* Python  ", "\n3. Jira", "\n-  Agile coaching", "\n*Roadmaps",
    "\n12 Figma" >>

MoreItemLines == <<
    "\n- Scrum", "\n- Kanban ", "\n2. AWS", "\n* User research", "\n*  Metrics",
    "\n- KPIs" >>

RECURSIVE Concat(_)
Concat(parts) == IF Len(parts) = 0 THEN "" ELSE parts[1] \o Concat(Tail(parts))

SectionSizes == {0, 3, 6}
MoreSectionSizes == {2, 6}

Headings == {
    "Requirements:", "Qualification", "What you will need:", "You should have:",
    "Requirements and qualifications:" }

MoreHeadings == { "Qualifications:", "requirements", "You should have" }

Endings == { "", "\n", "\nBenefits: none\n" }

\* job texts with one or two requirement sections
SectionTexts ==
    { "PM role\n" \o x[1] \o Concat(Take(ItemLines, x[2])) \o x[3] \o x[4] :
        x \in Headings \X SectionSizes
              \X ({""} \cup { "\n" \o y[1] \o Concat(Take(MoreItemLines, y[2])) :
                                 y \in MoreHeadings \X MoreSectionSizes })
              \X Endings }

\* the caller calls analyzer._extract_requirements(jd), once in a run
CallExtractRequirements(jd) ==
    /\ ~extracted.called
    /\ extracted' = [called |-> TRUE, jd |-> jd, value |-> extract_requirements(jd)]
    /\ UNCHANGED <<PM_KEYWORDS, all_keywords, user_profile, exp_objs, analysis, tailored,
                   calls, config, validation, company, parsed, merging>>

InitRequirements ==
    /\ PM_KEYWORDS = BASE_PM_KEYWORDS
    /\ all_keywords = AllKeywords(BASE_PM_KEYWORDS)
    /\ user_profile = LoadedProfile(0, 0)
    /\ exp_objs = LoadedExperiences(0, 0)
    /\ analysis = NotAnalyzed
    /\ tailored = NotTailored
    /\ calls = NoCalls
    /\ config = DEFAULT_CONFIG
    /\ validation = NotValidated
    /\ extracted = NotExtracted
    /\ company = NoCompanyInfo
    /\ parsed = NotParsed
    /\ merging = NotMerged

NextRequirements == \E jd \in SectionTexts : CallExtractRequirements(jd)

SpecRequirements == InitRequirements /\ [][NextRequirements]_vars

(***************************************************************************)
(* _extract_company_info on job texts that name industries and stages.     *)
(***************************************************************************)

IndustryWords == { "", "Mobile", "SaaS", "fintech", "Marketplaces" }

StageWords == {
    "", "startup", "Seed round", "Enterprise", "Fortune 500", "an enlarged team",
    "early stage", "startup for enterprise", "Enterprise startups" }

\* job texts that name up to two industries and a stage
CompanyTexts ==
    { x[1] \o " and " \o x[2] \o " PM at " \o x[3] :
        x \in IndustryWords \X IndustryWords \X StageWords }

\* the caller calls analyzer._extract_company_info(jd), once in a run
CallExtractCompanyInfo(jd) ==
    /\ ~company.called
    /\ company' = [called |-> TRUE, jd |-> jd,
                   value |-> extract_company_info(PM_KEYWORDS, jd)]
    /\ UNCHANGED <<PM_KEYWORDS, all_keywords, user_profile, exp_objs, analysis, tailored,
                   calls, config, validation, extracted, parsed, merging>>

InitCompanyInfo ==
    \E table \in KeywordTables :
        /\ PM_KEYWORDS = table
        /\ all_keywords = AllKeywords(table)
        /\ user_profile = LoadedProfile(0, 0)
        /\ exp_objs = LoadedExperiences(0, 0)
        /\ analysis = NotAnalyzed
        /\ tailored = NotTailored
        /\ calls = NoCalls
        /\ config = DEFAULT_CONFIG
        /\ validation = NotValidated
        /\ extracted = NotExtracted
        /\ company = NoCompanyInfo
        /\ parsed = NotParsed
        /\ merging = NotMerged

NextCompanyInfo == \E jd \in CompanyTexts : CallExtractCompanyInfo(jd)

SpecCompanyInfo == InitCompanyInfo /\ [][NextCompanyInfo]_vars

(***************************************************************************)
(* tailor_resume called twice on the one ResumeTailor, the second call     *)
(* after the first has returned; calls[t] is the t-th result kept by the   *)
(* caller.                                                                 *)
(***************************************************************************)
\* no call of tailor_resume is under way
NoCallRunning == \A t \in Threads : calls[t].pc \in {"idle", "done"}

\* a call that starts when no other call runs
StartTailorResumeAlone(t, job_description) ==
    /\ NoCallRunning
    /\ StartTailorResume(t, job_description)

NextSequential ==
    \E t \in Threads :
        \/ \E job_description \in JobDescriptions : StartTailorResumeAlone(t, job_description)
        \/ ScoreNext(t)
        \/ KeyNext(t)
        \/ SortAndReturn(t)

SpecSequential == InitThreaded /\ [][NextSequential]_vars

(***************************************************************************)
(* The same program on profiles that list skills and experiences twice.    *)
(***************************************************************************)
\* the numbers of experiences that are listed twice
RepeatedSizes == {2, 3}

\* a profile file whose experiences and skills lists hold every entry twice:
\* load_user_profile creates an Experience for every entry
InitRepeated ==
    \E table \in KeywordTables, n \in RepeatedSizes :
        /\ PM_KEYWORDS = table
        /\ all_keywords = AllKeywords(table)
        /\ user_profile =
               [LoadedProfile(n, 0) EXCEPT
                   !.experiences = List([i \in 1..(2 * n) |-> i]),
                   !.skills = LoadedProfile(n, 0).skills \o LoadedProfile(n, 0).skills]
        /\ exp_objs = LoadedExperiences(n, 0) \o LoadedExperiences(n, 0)
        /\ analysis = NotAnalyzed
        /\ tailored = NotTailored
        /\ calls = NoCalls
        /\ config = DEFAULT_CONFIG
        /\ validation = NotValidated
        /\ extracted = NotExtracted
        /\ company = NoCompanyInfo
        /\ parsed = NotParsed
        /\ merging = NotMerged

SpecRepeated == InitRepeated /\ [][Next]_vars

(***************************************************************************)
(* ResumeFormatter.parse_resume_text.  A dict of sections is the list of   *)
(* its items, [section, content], in insertion order.                      *)
(***************************************************************************)
\* section_patterns, lines 134-143: the alternatives of each ^(...) pattern
SECTION_PATTERNS == <<
    [section |-> "Contact", prefixes |-> <<"contact", "personal", "info">>],
    [section |-> "Summary", prefixes |-> <<"summary", "objective", "profile">>],
    [section |-> "Experience",
     prefixes |-> <<"experience", "work", "employment", "career">>],
    [section |-> "Education", prefixes |-> <<"education", "academic", "school">>],
    [section |-> "Skills", prefixes |-> <<"skills", "technical", "competenc">>],
    [section |-> "Projects", prefixes |-> <<"projects", "portfolio">>],
    [section |-> "Certifications", prefixes |-> <<"certification", "certificate">>],
    [section |-> "Awards", prefixes |-> <<"awards", "achievement", "honor">>] >>

\* re.match(pattern, line.lower()) for the pattern of entry p
MatchesSection(p, line) ==
    \E a \in 1..Len(SECTION_PATTERNS[p].prefixes) :
        StartsAt(Lower(line), 1, SECTION_PATTERNS[p].prefixes[a])

\* the loop of lines 150-153: the first section whose pattern matches the
\* line, "" for None
FoundSection(line) ==
    IF \E p \in 1..Len(SECTION_PATTERNS) : MatchesSection(p, line)
    THEN SECTION_PATTERNS[CHOOSE p \in 1..Len(SECTION_PATTERNS) :
                              /\ MatchesSection(p, line)
                              /\ \A q \in 1..(p - 1) : ~MatchesSection(q, line)].section
    ELSE ""

\* s.split('\n')
RECURSIVE SplitLines(_)
SplitLines(s) ==
    IF \E k \in 1..Len(s) : CharAt(s, k) = "\n"
    THEN LET k == CHOOSE x \in 1..Len(s) :
                      /\ CharAt(s, x) = "\n"
                      /\ \A y \in 1..(x - 1) : CharAt(s, y) # "\n"
         IN  <<SubSeq(s, 1, k - 1)>> \o SplitLines(SubSeq(s, k + 1, Len(s)))
    ELSE <<s>>

HasSection(sections, section) ==
    \E i \in 1..Len(sections) : sections[i].section = section

\* sections[section] = []
SetEmpty(sections, section) ==
    IF HasSection(sections, section)
    THEN List([i \in 1..Len(sections) |->
                IF sections[i].section = section
                THEN [section |-> section, content |-> <<>>] ELSE sections[i]])
    ELSE Append(sections, [section |-> section, content |-> <<>>])

\* sections[section].append(line)
AppendLine(sections, section, line) ==
    List([i \in 1..Len(sections) |->
            IF sections[i].section = section
            THEN [section |-> section, content |-> Append(sections[i].content, line)]
            ELSE sections[i]])

\* the loop of lines 145-166 from line i on; current_section "" is None
RECURSIVE ParseLines(_, _, _, _)
ParseLines(lines, i, sections, current_section) ==
    IF i > Len(lines) THEN sections
    ELSE LET line == Strip(lines[i])
         IN  IF line = "" THEN ParseLines(lines, i + 1, sections, current_section)
             ELSE IF FoundSection(line) # ""
             THEN ParseLines(lines, i + 1, SetEmpty(sections, FoundSection(line)),
                             FoundSection(line))
             ELSE IF current_section # ""
             THEN ParseLines(lines, i + 1, AppendLine(sections, current_section, line),
                             current_section)
             ELSE ParseLines(lines, i + 1,
                             AppendLine(IF HasSection(sections, "Contact") THEN sections
                                        ELSE SetEmpty(sections, "Contact"),
                                        "Contact", line),
                             current_section)

\* parse_resume_text
parse_resume_text(resume_text) == ParseLines(SplitLines(Strip(resume_text)), 1, <<>>, "")

\* the lines resume texts are made of
ResumeLines == <<
    "  Jai Kumar ", "", "Contact", "EXPERIENCE", "Skills:", "Worked on roadmaps",
    "SQL, Python" >>

MaxLines == 4

\* the resume texts: up to MaxLines lines, joined by newlines
ResumeTexts ==
    UNION { { Join("\n", List([i \in 1..n |-> ResumeLines[f[i]]])) :
                f \in [1..n -> 1..Len(ResumeLines)] } : n \in 0..MaxLines }

\* the user's text is parsed, once in a run
CallParseResumeText(resume_text) ==
    /\ ~parsed.called
    /\ parsed' = [called |-> TRUE, resume_text |-> resume_text,
                  value |-> parse_resume_text(resume_text)]
    /\ UNCHANGED <<PM_KEYWORDS, all_keywords, user_profile, exp_objs, analysis, tailored,
                   calls, config, validation, extracted, company, merging>>

InitParse ==
    /\ PM_KEYWORDS = BASE_PM_KEYWORDS
    /\ all_keywords = AllKeywords(BASE_PM_KEYWORDS)
    /\ user_profile = LoadedProfile(0, 0)
    /\ exp_objs = LoadedExperiences(0, 0)
    /\ analysis = NotAnalyzed
    /\ tailored = NotTailored
    /\ calls = NoCalls
    /\ config = DEFAULT_CONFIG
    /\ validation = NotValidated
    /\ extracted = NotExtracted
    /\ company = NoCompanyInfo
    /\ parsed = NotParsed
    /\ merging = NotMerged

NextParse == \E resume_text \in ResumeTexts : CallParseResumeText(resume_text)

SpecParse == InitParse /\ [][NextParse]_vars

(***************************************************************************)
(* merge_keyword_categories.  A dict of categories is the list of its      *)
(* items, [category, keywords], in insertion order.  base_keywords.copy()  *)
(* is a new dict whose values are the list objects of base_keywords, so    *)
(* what extend does to a list of merged it does to the list of the         *)
(* caller's dict.                                                          *)
(***************************************************************************)

\* merged[category].extend(keywords): the list object grows in place
ExtendCategory(merged, category, keywords) ==
    [k \in 1..Len(merged) |->
        IF merged[k].category = category
        THEN [category |-> category, keywords |-> merged[k].keywords \o keywords]
        ELSE merged[k]]

\* the loop over custom_keywords.items(), from item i on
RECURSIVE MergeItems(_, _, _)
MergeItems(merged, custom_keywords, i) ==
    IF i > Len(custom_keywords) THEN merged
    ELSE LET category == custom_keywords[i].category
             keywords == custom_keywords[i].keywords
         IN  IF HasCategory(merged, category)
             THEN MergeItems(ExtendCategory(merged, category, keywords), custom_keywords, i + 1)
             ELSE MergeItems(Append(merged, [category |-> category, keywords |-> keywords]),
                             custom_keywords, i + 1)

\* base_keywords after the loop: its lists are those of the first
\* Len(base_keywords) items of merged, and no key of it is assigned
BaseAfterLoop(base_keywords, custom_keywords) ==
    SubSeq(MergeItems(base_keywords, custom_keywords, 1), 1, Len(base_keywords))

\* list(set(keywords)): the distinct keywords in an order the set decides
RECURSIVE ListsOfSet(_)
ListsOfSet(S) ==
    IF S = {} THEN {<<>>}
    ELSE UNION { { <<x>> \o rest : rest \in ListsOfSet(S \ {x}) } : x \in S }

\* the loop that removes duplicates, from item i on: every dict it can leave
RECURSIVE WithoutDuplicateKeywords(_, _)
WithoutDuplicateKeywords(merged, i) ==
    IF i > Len(merged) THEN {merged}
    ELSE UNION { WithoutDuplicateKeywords(
                     [merged EXCEPT ![i] = [category |-> merged[i].category, keywords |-> l]],
                     i + 1) :
                 l \in ListsOfSet({merged[i].keywords[j] : j \in 1..Len(merged[i].keywords)}) }

\* the dicts merge_keyword_categories can return
merge_keyword_categories(base_keywords, custom_keywords) ==
    WithoutDuplicateKeywords(MergeItems(base_keywords, custom_keywords, 1), 1)

MergeCategories == <<"technical", "domain">>

KeywordLists == {<<>>, <<"sql">>, <<"sql", "api">>, <<"api", "aws">>}

\* the dicts a caller passes: no, one or two categories
CategoryDicts ==
    {<<>>}
    \cup { <<[category |-> MergeCategories[c], keywords |-> k]>> :
              c \in 1..Len(MergeCategories), k \in KeywordLists }
    \cup { <<[category |-> MergeCategories[c], keywords |-> k],
             [category |-> MergeCategories[3 - c], keywords |-> l]>> :
              c \in 1..Len(MergeCategories), k \in KeywordLists, l \in KeywordLists }

\* the two dicts are merged, once in a run
CallMergeKeywordCategories(base_keywords, custom_keywords) ==
    /\ ~merging.called
    /\ \E value \in merge_keyword_categories(base_keywords, custom_keywords) :
           merging' = [called |-> TRUE,
                       base_keywords |-> BaseAfterLoop(base_keywords, custom_keywords),
                       custom_keywords |-> custom_keywords,
                       base_given |-> base_keywords,
                       custom_given |-> custom_keywords,
                       value |-> value]
    /\ UNCHANGED <<PM_KEYWORDS, all_keywords, user_profile, exp_objs, analysis, tailored,
                   calls, config, validation, extracted, company, parsed>>

InitMerge ==
    /\ PM_KEYWORDS = BASE_PM_KEYWORDS
    /\ all_keywords = AllKeywords(BASE_PM_KEYWORDS)
    /\ user_profile = LoadedProfile(0, 0)
    /\ exp_objs = LoadedExperiences(0, 0)
    /\ analysis = NotAnalyzed
    /\ tailored = NotTailored
    /\ calls = NoCalls
    /\ config = DEFAULT_CONFIG
    /\ validation = NotValidated
    /\ extracted = NotExtracted
    /\ company = NoCompanyInfo
    /\ parsed = NotParsed
    /\ merging = NotMerged

NextMerge ==
    \E base_keywords \in CategoryDicts, custom_keywords \in CategoryDicts :
        CallMergeKeywordCategories(base_keywords, custom_keywords)

SpecMerge == InitMerge /\ [][NextMerge]_vars

(***************************************************************************)
(* Properties.                                                             *)
(***************************************************************************)

\* a tailor_resume call has returned
Returned == tailored.called /\ tailored.raised = ""

\* the position of the experience with reference id in user_profile.experiences
InputPosition(id) ==
    CHOOSE p \in 1..Len(user_profile.experiences) : user_profile.experiences[p] = id

\* C1: _score_experiences returns the experiences of the profile, each once,
\* in descending order of relevance_score, and two experiences with equal
\* scores come out in the order they have in user_profile.experiences
C1_RankingIsStableDescending ==
    Returned =>
        LET ranked == tailored.scored_experiences
            scores == tailored.relevance_scores
        IN  /\ Len(ranked) = Len(user_profile.experiences)
            /\ \A p \in 1..Len(user_profile.experiences) :
                   \E i \in 1..Len(ranked) : ranked[i] = user_profile.experiences[p]
            /\ \A i, j \in 1..Len(ranked) :
                   i < j => /\ scores[i] >= scores[j]
                            /\ scores[i] = scores[j] =>
                                   InputPosition(ranked[i]) < InputPosition(ranked[j])

\* a ranking that moved an experience and holds two experiences of equal score
C1_Witness ==
    /\ Returned
    /\ tailored.scored_experiences # user_profile.experiences
    /\ \E i, j \in 1..Len(tailored.relevance_scores) :
           /\ i < j
           /\ tailored.relevance_scores[i] = tailored.relevance_scores[j]
           /\ tailored.relevance_scores[i] > 0

Analyzed == analysis.called /\ analysis.raised = ""

\* the phrases of the tables
TablePhrases ==
    UNION {{AllKeywords(t)[i] : i \in 1..Len(AllKeywords(t))} : t \in KeywordTables}

\* jd_lower.count(keyword) for the phrases of the tables and the job texts
Occurrences ==
    Tabulated([x \in TablePhrases \X {JobTexts[j] : j \in 1..Len(JobTexts)} |->
                  Count(Lower(x[2]), x[1])])

\* the categories of PM_KEYWORDS, by position, that list the phrase
CategoriesOf(keyword) ==
    {c \in 1..Len(PM_KEYWORDS) :
        \E i \in 1..Len(PM_KEYWORDS[c].keywords) : PM_KEYWORDS[c].keywords[i] = keyword}

LastCategoryOf(keyword) ==
    CHOOSE c \in CategoriesOf(keyword) : \A d \in CategoriesOf(keyword) : d <= c

\* C3: every value of the keyword score map analyze returns is >= 0, belongs
\* to one key only, and is the phrase's number of occurrences in the lowercased
\* job text times the weight of the last category of the table that lists the
\* phrase
C3_KeywordScoreOfLastCategory ==
    Analyzed =>
        LET scores == analysis.value.keyword_scores
            text == analysis.job_description.str
        IN  \A i \in 1..Len(scores) :
                /\ scores[i].score >= 0
                /\ \A j \in 1..Len(scores) : scores[j].keyword = scores[i].keyword => j = i
                /\ CategoriesOf(scores[i].keyword) # {}
                /\ scores[i].score =
                       Occurrences[<<scores[i].keyword, text>>]
                       * CategoryWeight(PM_KEYWORDS[LastCategoryOf(scores[i].keyword)].category)

\* a score map with a phrase that two categories of different weight list,
\* and with a phrase that occurs more than once
C3_Witness ==
    /\ Analyzed
    /\ \E i \in 1..Len(analysis.value.keyword_scores) :
           \E c, d \in CategoriesOf(analysis.value.keyword_scores[i].keyword) :
               CategoryWeight(PM_KEYWORDS[c].category) # CategoryWeight(PM_KEYWORDS[d].category)
    /\ \E i \in 1..Len(analysis.value.keyword_scores) :
           Occurrences[<<analysis.value.keyword_scores[i].keyword,
                         analysis.job_description.str>>] > 1


\* the experiences profiles are made of, as loaded
PoolExperiences == {NewExperience(ExperiencePool[p]) : p \in 1..Len(ExperiencePool)}

\* title, company, achievements and skills of an experience, joined by
\* spaces and lowercased
ConcatenatedText ==
    Tabulated([exp \in PoolExperiences |->
        Lower(exp.title \o " " \o exp.company \o " " \o Join(" ", exp.achievements)
              \o " " \o Join(" ", exp.skills))])

\* whether a phrase of the tables is a substring of an experience's text
IsSubstringOfText ==
    Tabulated([phrase \in TablePhrases |->
        Tabulated([exp \in PoolExperiences |-> Contains(phrase, ConcatenatedText[exp])])])

\* whether the lowercased title holds one of the three product terms
HasProductTitle ==
    Tabulated([exp \in PoolExperiences |->
        \E term \in {"product manager", "product owner", "pm"} :
            Contains(term, Lower(exp.title))])

\* the sum of the values of the score map whose key is a substring of the
\* experience's text
MatchingKeywordSum(exp, keyword_scores) ==
    SumSeq(List([k \in 1..Len(keyword_scores) |->
                    IF IsSubstringOfText[keyword_scores[k].keyword][exp]
                    THEN keyword_scores[k].score ELSE 0]))

\* the experience with reference id, as loaded (relevance_score 0)
Loaded(id) == [exp_objs[id] EXCEPT !.relevance_score = 0]

\* C4: the relevance score of an experience is the sum of the score-map
\* values of the keywords that are substrings of its lowercased text, plus 5.0
\* (50 tenths) once if its lowercased title contains 'product manager',
\* 'product owner' or 'pm'; a 'Senior Product Manager' gets the bonus
C4_RelevanceScore ==
    Returned =>
        \A i \in 1..Len(tailored.scored_experiences) :
            LET exp == Loaded(tailored.scored_experiences[i])
                matching == MatchingKeywordSum(exp, tailored.resume.job_analysis.keyword_scores)
            IN  /\ tailored.relevance_scores[i] =
                       matching + (IF HasProductTitle[exp] THEN 50 ELSE 0)
                /\ exp.title = "Senior Product Manager" =>
                       tailored.relevance_scores[i] = matching + 50

\* a Senior Product Manager with matching keywords next to an experience
\* with matching keywords and no bonus
C4_Witness ==
    /\ Returned
    /\ \E i, j \in 1..Len(tailored.scored_experiences) :
           /\ Loaded(tailored.scored_experiences[i]).title = "Senior Product Manager"
           /\ tailored.relevance_scores[i] > 50
           /\ ~HasProductTitle[Loaded(tailored.scored_experiences[j])]
           /\ tailored.relevance_scores[j] > 0


\* C5: a tailor_resume call for the job text of the call before, made with
\* the relevance scores reset, returns what the call before returned: the same
\* summary, experiences in the same order with the same scores, the same
\* skills, job analysis and optimization notes
C5_TailorTwiceSameContent ==
    [][ ( /\ Returned
          /\ AllScoresReset
          /\ tailored'.called /\ tailored'.raised = ""
          /\ tailored'.job_description = tailored.job_description )
        => /\ tailored'.resume = tailored.resume
           /\ tailored'.scored_experiences = tailored.scored_experiences
           /\ tailored'.relevance_scores = tailored.relevance_scores
           /\ tailored'.prioritized_skills = tailored.prioritized_skills ]_vars

\* a second call for the same job text after a reset, with scores that
\* reorder the experiences
C5_Witness ==
    /\ Returned
    /\ tailored.repeat
    /\ tailored.scored_experiences # user_profile.experiences
    /\ \E i \in 1..Len(tailored.relevance_scores) : tailored.relevance_scores[i] > 0


\* skill.lower() of the skills profiles are made of
LowerSkill == Tabulated([skill \in {SkillPool[p] : p \in 1..Len(SkillPool)} |-> Lower(skill)])

\* the value of the score map at a key, -1 when it has no such key
ValueAt(keyword_scores, keyword) ==
    IF \E k \in 1..Len(keyword_scores) : keyword_scores[k].keyword = keyword
    THEN keyword_scores[CHOOSE k \in 1..Len(keyword_scores) :
                            keyword_scores[k].keyword = keyword].score
    ELSE -1

\* the key's score plus 2.0 (20 tenths) for a skill whose lowercased text is a
\* key of the score map, 0 for any other skill
ExactMatchScore(skill, keyword_scores) ==
    IF ValueAt(keyword_scores, LowerSkill[skill]) >= 0
    THEN ValueAt(keyword_scores, LowerSkill[skill]) + 20 ELSE 0

\* the position of a skill in user_profile.skills
SkillPosition(skill) ==
    CHOOSE p \in 1..Len(user_profile.skills) : user_profile.skills[p] = skill

\* C6: _prioritize_skills returns the skills of the profile in descending
\* order of: the key's score plus 2.0 when the lowercased skill is a key of the
\* score map, else 0; skills of equal score keep their order, and a skill 'SQL'
\* that is a key comes before every skill that is no key, also one that holds
\* a keyword as a substring
C6_SkillsByExactMatch ==
    Returned =>
        LET keyword_scores == tailored.resume.job_analysis.keyword_scores
            out == tailored.prioritized_skills
            Score(skill) == ExactMatchScore(skill, keyword_scores)
        IN  /\ Len(out) = Len(user_profile.skills)
            /\ \A p \in 1..Len(user_profile.skills) :
                   \E i \in 1..Len(out) : out[i] = user_profile.skills[p]
            /\ \A i, j \in 1..Len(out) :
                   i < j => /\ Score(out[i]) >= Score(out[j])
                            /\ Score(out[i]) = Score(out[j]) =>
                                   SkillPosition(out[i]) < SkillPosition(out[j])
            /\ \A i, j \in 1..Len(out) :
                   ( /\ out[i] = "SQL"
                     /\ ValueAt(keyword_scores, "sql") >= 0
                     /\ ValueAt(keyword_scores, LowerSkill[out[j]]) < 0 ) => i < j

\* 'MySQL' stands before 'SQL' in the profile, 'sql' is a keyword of the job
\* text, and 'SQL' comes out before 'MySQL'
C6_Witness ==
    /\ Returned
    /\ ValueAt(tailored.resume.job_analysis.keyword_scores, "sql") > 0
    /\ \E p, q \in 1..Len(user_profile.skills) :
           /\ p < q
           /\ user_profile.skills[p] = "MySQL"
           /\ user_profile.skills[q] = "SQL"
    /\ \E i, j \in 1..Len(tailored.prioritized_skills) :
           /\ i < j
           /\ tailored.prioritized_skills[i] = "SQL"
           /\ tailored.prioritized_skills[j] = "MySQL"

\* C7: when no value of the keyword score map is other than zero,
\* _prioritize_skills returns the skills of the profile in their order
C7_ZeroScoresKeepSkillOrder ==
    ( /\ Returned
      /\ \A k \in 1..Len(tailored.resume.job_analysis.keyword_scores) :
             tailored.resume.job_analysis.keyword_scores[k].score = 0 )
    => tailored.prioritized_skills = user_profile.skills

\* a profile with several skills prioritized under a score map without a
\* non-zero value
C7_Witness ==
    /\ Returned
    /\ \A k \in 1..Len(tailored.resume.job_analysis.keyword_scores) :
           tailored.resume.job_analysis.keyword_scores[k].score = 0
    /\ Len(user_profile.skills) > 1
    /\ tailored.prioritized_skills = user_profile.skills


\* the relevance score of C4 for the experience with reference id
ComputedScore(id, keyword_scores) ==
    MatchingKeywordSum(Loaded(id), keyword_scores)
    + (IF HasProductTitle[Loaded(id)] THEN 50 ELSE 0)

\* C8: no step changes the UserProfile or a field of an Experience other
\* than relevance_score, and when tailor_resume has returned a new result every
\* experience of the profile, kept in the resume or not, carries the score
\* computed for the job text of the call
C8_OnlyRelevanceScoreMutated ==
    [][ /\ user_profile' = user_profile
        /\ Len(exp_objs') = Len(exp_objs)
        /\ \A id \in 1..Len(exp_objs) :
               [exp_objs'[id] EXCEPT !.relevance_score = 0] = Loaded(id)
        /\ ( tailored' # tailored /\ tailored'.raised = "" ) =>
               \A i \in 1..Len(user_profile.experiences) :
                   exp_objs'[user_profile.experiences[i]].relevance_score
                       = ComputedScore(user_profile.experiences[i],
                                       tailored'.resume.job_analysis.keyword_scores)
      ]_vars

\* a profile of more experiences than the resume keeps, one of the
\* experiences left out carrying a score other than 0
C8_Witness ==
    /\ Returned
    /\ Len(user_profile.experiences) > Len(tailored.resume.experiences)
    /\ \E i \in (Len(tailored.resume.experiences) + 1)..Len(tailored.scored_experiences) :
           /\ tailored.relevance_scores[i] > 0
           /\ exp_objs[tailored.scored_experiences[i]].relevance_score
                  = tailored.relevance_scores[i]

\* C9: for the empty job description analyze returns, with no keyword found
\* in any category of the table, an empty score map, no requirement, and the
\* summary of 0 keywords and 0 requirements that names the first three
\* categories of the table in table order
C9_EmptyJobDescription ==
    ( analysis.called /\ analysis.job_description = Str("") ) =>
        /\ analysis.raised = ""
        /\ Len(analysis.value.keywords) = Len(PM_KEYWORDS)
        /\ \A c \in 1..Len(PM_KEYWORDS) :
               /\ analysis.value.keywords[c].category = PM_KEYWORDS[c].category
               /\ analysis.value.keywords[c].found = <<>>
        /\ analysis.value.keyword_scores = <<>>
        /\ analysis.value.requirements = <<>>
        /\ analysis.value.analysis_summary =
               "Found 0 relevant PM keywords. Top focus areas: "
               \o PM_KEYWORDS[1].category \o ", " \o PM_KEYWORDS[2].category \o ", "
               \o PM_KEYWORDS[3].category \o ". Identified 0 key requirements."

\* analyze has returned for the empty job description over a table of more
\* than three categories
C9_Witness ==
    /\ Analyzed
    /\ analysis.job_description = Str("")
    /\ Len(PM_KEYWORDS) > 3

\* an analysis without keywords, scores, requirements or company information
AllEmpty(value) ==
    /\ \A c \in 1..Len(value.keywords) : value.keywords[c].found = <<>>
    /\ value.keyword_scores = <<>>
    /\ value.requirements = <<>>
    /\ value.company_info = [industry |-> "", size |-> "", stage |-> "", culture |-> <<>>]

\* C10: analyze never fails, gives the same analysis for the same job text,
\* changes neither the keyword table nor all_keywords, and for a null or
\* empty input returns an analysis with all fields empty
C10_AnalyzePureNeverFails ==
    [][ /\ PM_KEYWORDS' = PM_KEYWORDS
        /\ all_keywords' = all_keywords
        /\ ( /\ analysis.called /\ analysis'.called
              /\ analysis'.job_description = analysis.job_description ) =>
               analysis'.value = analysis.value
        /\ analysis'.called =>
               /\ analysis'.raised = ""
               /\ ( \/ analysis'.job_description.is_none
                     \/ analysis'.job_description.str = "" ) =>
                      AllEmpty(analysis'.value)
      ]_vars


\* C11: with a keyword table without entries tailor_resume raises nothing,
\* every keyword score is zero and the ranked experiences are the experiences
\* of the profile in their input order
C11_NoKeywordsNoException ==
    tailored.called =>
        /\ tailored.raised = ""
        /\ \A k \in 1..Len(tailored.resume.job_analysis.keyword_scores) :
               tailored.resume.job_analysis.keyword_scores[k].score = 0
        /\ tailored.scored_experiences = user_profile.experiences

\* a thread's call of tailor_resume has returned
ThreadReturned(t) == calls[t].pc = "done" /\ calls[t].raised = ""

\* what tailor_resume(job_description) returns when no other call runs: the
\* objects as scored by this call alone, and their ranking
ScoredAlone(job_description) ==
    ScoredObjects(exp_objs, user_profile.experiences,
                  Analyses[<<PM_KEYWORDS, job_description>>].value.keyword_scores)

RankedAlone(job_description) ==
    score_experiences(exp_objs, user_profile.experiences,
                      Analyses[<<PM_KEYWORDS, job_description>>].value.keyword_scores)

\* C12: when two tailor_resume calls over the same UserProfile are
\* interleaved, each returns the experience order and the relevance scores it
\* returns when it runs alone
C12_InterleavedCallsIndependent ==
    \A t \in Threads :
        ThreadReturned(t) =>
            /\ calls[t].scored_experiences = RankedAlone(calls[t].job_description)
            /\ calls[t].relevance_scores =
                   List([i \in 1..NumExperiences |->
                       ScoredAlone(calls[t].job_description)[
                           RankedAlone(calls[t].job_description)[i]].relevance_score])

\* C13: the core uses the values of the configuration: tailor_resume keeps
\* config max_experiences experiences and max_skills skills, an experience
\* with a product title gets the configured pm_title_bonus, and a keyword's
\* score is its count times the configured weight of its category
C13_ConfigurationIsUsed ==
    /\ Returned =>
        /\ Len(tailored.resume.experiences) =
               Min(config.max_experiences, Len(user_profile.experiences))
        /\ Len(tailored.resume.skills) = Min(config.max_skills, Len(user_profile.skills))
        /\ \A i \in 1..Len(tailored.scored_experiences) :
               tailored.relevance_scores[i] =
                   MatchingKeywordSum(Loaded(tailored.scored_experiences[i]),
                                      tailored.resume.job_analysis.keyword_scores)
                   + (IF HasProductTitle[Loaded(tailored.scored_experiences[i])]
                      THEN config.pm_title_bonus ELSE 0)
    /\ Analyzed =>
        \A i \in 1..Len(analysis.value.keyword_scores) :
            analysis.value.keyword_scores[i].score =
                Occurrences[<<analysis.value.keyword_scores[i].keyword,
                              analysis.job_description.str>>]
                * config.category_weights[
                      PM_KEYWORDS[LastCategoryOf(analysis.value.keyword_scores[i].keyword)].category]

\* a required field that is missing or empty: no key, None, '' or []
MissingOrEmpty(field) == field.kind \in {"absent", "none"} \/ Len(field.val) = 0

\* the value of a field, the empty value when it has none
ValueOrEmpty(field) == field.val

\* the words of a text: the positions where a run of non-blank characters ends
WordEnds(text) ==
    {i \in 1..Len(text) :
        /\ CharAt(text, i) \notin {" ", "\t", "\n"}
        /\ i = Len(text) \/ CharAt(text, i + 1) \in {" ", "\t", "\n"}}

\* the achievements of a list of experience dicts, as <<experience, achievement>>
AchievementsOf(experiences) ==
    {x \in (1..Len(experiences)) \X (1..2) :
        x[2] <= Len(experiences[x[1]].achievements.val)}

\* the number of violations the profile dict has
Violations(profile_data) ==
    Cardinality({f \in DOMAIN profile_data : MissingOrEmpty(profile_data[f])})
    + (IF Len(ValueOrEmpty(profile_data.experiences)) < 2 THEN 1 ELSE 0)
    + (IF Len(ValueOrEmpty(profile_data.skills)) < 5 THEN 1 ELSE 0)
    + (IF Cardinality(WordEnds(ValueOrEmpty(profile_data.summary))) > 100 THEN 1 ELSE 0)
    + Cardinality({x \in AchievementsOf(ValueOrEmpty(profile_data.experiences)) :
          Cardinality(WordEnds(ValueOrEmpty(profile_data.experiences)[x[1]]
                                   .achievements.val[x[2]])) > 25})

\* C14: validate_user_profile returns, its error list holds one entry for
\* every violation of the profile dict (a missing or empty required field,
\* fewer than 2 experiences, fewer than 5 skills, a summary of more than 100
\* words, each achievement of more than 25 words), and the flag is true
\* exactly when the list is empty
C14_ValidationReportsEveryViolation ==
    validation.called =>
        /\ validation.raised = ""
        /\ Len(validation.errors) = Violations(validation.profile_data)
        /\ validation.valid <=> validation.errors = <<>>

\* C15: what tailor_resume returns does not depend on focus_areas, which
\* reaches _optimize_summary only: the summary of the result is the summary
\* _optimize_summary gives for every value of focus_areas, None included
C15_FocusAreasIgnored ==
    Returned =>
        \A focus_areas \in FocusAreas :
            tailored.resume.summary =
                Summaries[<<user_profile.summary,
                            tailored.resume.job_analysis.keyword_scores, focus_areas>>]

\* a call with a focus area has returned a summary with keywords and themes
C15_Witness ==
    /\ Returned
    /\ tailored.focus_areas = <<"growth">>
    /\ Len(tailored.resume.job_analysis.keyword_scores) > 0
    /\ Contains("with proven expertise in", tailored.resume.summary)

\* the job texts in lowercase letters
LowerTexts == Tabulated([text \in {JobTexts[j] : j \in 1..Len(JobTexts)} |-> Lower(text)])

\* the positions of a lowercased job text at which a phrase of the tables
\* occurs
OccurrencePositions ==
    Tabulated([x \in TablePhrases \X {JobTexts[j] : j \in 1..Len(JobTexts)} |->
        {i \in 1..Len(x[2]) :
            /\ i + Len(x[1]) - 1 <= Len(x[2])
            /\ SubSeq(LowerTexts[x[2]], i, i + Len(x[1]) - 1) = x[1]}])

\* the largest number of occurrences of the phrase of which no two overlap
NonOverlappingOccurrences ==
    Tabulated([x \in DOMAIN OccurrencePositions |->
        CHOOSE n \in 0..Cardinality(OccurrencePositions[x]) :
            /\ \E S \in SUBSET OccurrencePositions[x] :
                   /\ Cardinality(S) = n
                   /\ \A i, j \in S : i < j => i + Len(x[1]) <= j
            /\ \A S \in SUBSET OccurrencePositions[x] :
                   (\A i, j \in S : i < j => i + Len(x[1]) <= j) => Cardinality(S) <= n])

\* C16: analyze records a phrase of a category exactly when the phrase occurs
\* somewhere in the lowercased job text, inside another word too, once per
\* category, with the number of its non-overlapping occurrences as count;
\* 'agile' in 'Agile ... agile, AGILE' counts 3 and 'sql' in 'SQL ... MySQL;
\* sql' counts 3
C16_SubstringKeywordDetection ==
    Analyzed =>
        LET text == analysis.job_description.str
        IN  /\ \A c \in 1..Len(PM_KEYWORDS) :
                   LET found == analysis.value.keywords[c].found
                       keywords == PM_KEYWORDS[c].keywords
                   IN  /\ \A i \in 1..Len(keywords) :
                              (\E k \in 1..Len(found) : found[k].keyword = keywords[i])
                              <=> OccurrencePositions[<<keywords[i], text>>] # {}
                       /\ \A k \in 1..Len(found) :
                              /\ \E i \in 1..Len(keywords) : keywords[i] = found[k].keyword
                              /\ found[k].count =
                                     NonOverlappingOccurrences[<<found[k].keyword, text>>]
                              /\ \A m \in 1..Len(found) :
                                     found[m].keyword = found[k].keyword => m = k
            /\ \A c \in 1..Len(PM_KEYWORDS) :
                   \A k \in 1..Len(analysis.value.keywords[c].found) :
                       LET entry == analysis.value.keywords[c].found[k]
                       IN  /\ (text = JobTexts[2] /\ entry.keyword = "agile") => entry.count = 3
                           /\ (text = JobTexts[3] /\ entry.keyword = "sql") => entry.count = 3

\* an analysis of 'Mobile SaaSaas ...': 'saas' occurs at two overlapping
\* positions and is recorded with count 1
C16_Witness ==
    /\ Analyzed
    /\ Cardinality(OccurrencePositions[<<"saas", analysis.job_description.str>>]) = 2
    /\ \E c \in 1..Len(PM_KEYWORDS) :
           \E k \in 1..Len(analysis.value.keywords[c].found) :
               /\ analysis.value.keywords[c].found[k].keyword = "saas"
               /\ analysis.value.keywords[c].found[k].count = 1

\* the place of entry i of a score map among the entries by descending score,
\* entries of equal score in the order of the map
ScoreRank(keyword_scores, i) ==
    1 + Cardinality({j \in 1..Len(keyword_scores) :
                        \/ keyword_scores[j].score > keyword_scores[i].score
                        \/ /\ keyword_scores[j].score = keyword_scores[i].score
                           /\ j < i})

\* the keywords of the entries of places 1 to n
HighestScoring(keyword_scores, n) ==
    [r \in 1..(IF Len(keyword_scores) < n THEN Len(keyword_scores) ELSE n) |->
        keyword_scores[CHOOSE i \in 1..Len(keyword_scores) :
                           ScoreRank(keyword_scores, i) = r].keyword]

\* the themes of the summary with the substrings that trigger each
SUMMARY_THEMES == <<
    [triggers |-> {"agile", "scrum"}, phrase |-> "agile methodologies"],
    [triggers |-> {"data", "analytics"}, phrase |-> "data-driven decision making"],
    [triggers |-> {"stakeholder", "cross-functional"}, phrase |-> "stakeholder management"] >>

IsPartOf(part, whole) ==
    \E i \in 1..(Len(whole) + 1 - Len(part)) : SubSeq(whole, i, i + Len(part) - 1) = part

Triggered(theme, keywords) ==
    \E k \in 1..Len(keywords) : \E t \in theme.triggers : IsPartOf(t, keywords[k])

\* the phrases of the triggered themes, in the order of SUMMARY_THEMES
TriggeredThemes(keywords) ==
    LET Phrase(n) == IF Triggered(SUMMARY_THEMES[n], keywords)
                     THEN <<SUMMARY_THEMES[n].phrase>> ELSE <<>>
    IN  Phrase(1) \o Phrase(2) \o Phrase(3)

\* C17: the summary of a returned resume is the base summary, ' Specialized
\* in ', the first 5 of the 8 highest-scoring keywords (equal scores in the
\* order of the score map) joined by ', ', then ' with proven expertise in '
\* and the themes joined by ', ' if a theme matched, then a period; with an
\* empty score map it is the base summary and ' Specialized in .'
C17_SummaryFormat ==
    Returned =>
        LET keyword_scores == tailored.resume.job_analysis.keyword_scores
            top == HighestScoring(keyword_scores, 8)
            themes == TriggeredThemes(top)
            head == user_profile.summary \o " Specialized in "
                    \o Join(", ", SubSeq(top, 1, IF Len(top) < 5 THEN Len(top) ELSE 5))
        IN  /\ tailored.resume.summary =
                   IF themes = <<>> THEN head \o "."
                   ELSE head \o " with proven expertise in " \o Join(", ", themes) \o "."
            /\ Len(keyword_scores) = 0 =>
                   tailored.resume.summary = user_profile.summary \o " Specialized in ."

\* a returned resume whose score map has more than 8 keywords, one of the
\* first 8 of the map not among the 8 highest-scoring, and two of the first
\* 5 named with equal scores
C17_Witness ==
    /\ Returned
    /\ LET keyword_scores == tailored.resume.job_analysis.keyword_scores
       IN  /\ Len(keyword_scores) > 8
           /\ \E i \in 1..8 : ScoreRank(keyword_scores, i) > 8
           /\ \E i, j \in 1..Len(keyword_scores) :
                  /\ i # j
                  /\ ScoreRank(keyword_scores, i) <= 5
                  /\ ScoreRank(keyword_scores, j) <= 5
                  /\ keyword_scores[i].score = keyword_scores[j].score

\* a returned resume with an empty score map
C17_WitnessEmpty ==
    /\ Returned
    /\ Len(tailored.resume.job_analysis.keyword_scores) = 0
    /\ tailored.resume.summary = user_profile.summary \o " Specialized in ."

\* C18: the themes of the summary come from the 8 highest-scoring keywords
\* only, in the order 'agile methodologies', 'data-driven decision making',
\* 'stakeholder management', each named exactly when one of those keywords
\* holds one of its trigger substrings; for 'agile' three times and 'scrum'
\* once the scores are 3.0 and 1.0 and the summary names 'agile
\* methodologies'
C18_ThemesFromTopKeywords ==
    Returned =>
        LET keyword_scores == tailored.resume.job_analysis.keyword_scores
            summary == tailored.resume.summary
            top == HighestScoring(keyword_scores, 8)
            named == Join(", ", SubSeq(top, 1, IF Len(top) < 5 THEN Len(top) ELSE 5))
            after == Len(user_profile.summary \o " Specialized in " \o named)
            themes_text == SubSeq(summary, after + 1, Len(summary))
            Named(n) == Triggered(SUMMARY_THEMES[n], top)
            Then(n) == IF \E m \in 1..(n - 1) : Named(m) THEN ", " ELSE ""
            Text(n) == IF Named(n) THEN Then(n) \o SUMMARY_THEMES[n].phrase ELSE ""
        IN  /\ themes_text =
                   IF \E n \in 1..3 : Named(n)
                   THEN " with proven expertise in " \o Text(1) \o Text(2) \o Text(3) \o "."
                   ELSE "."
            /\ tailored.job_description = Str("Agile coach: agile, AGILE and Scrum.") =>
                   /\ \E i \in 1..Len(keyword_scores) :
                          keyword_scores[i] = [keyword |-> "agile", score |-> 30]
                   /\ \E i \in 1..Len(keyword_scores) :
                          keyword_scores[i] = [keyword |-> "scrum", score |-> 10]
                   /\ IsPartOf("agile methodologies", themes_text)

\* a returned resume for a text with a trigger keyword, 'analytics', that is
\* not among the 8 highest-scoring keywords and triggers no theme
C18_Witness ==
    /\ Returned
    /\ LET keyword_scores == tailored.resume.job_analysis.keyword_scores
       IN  /\ \E i \in 1..Len(keyword_scores) :
                  /\ keyword_scores[i].keyword = "analytics"
                  /\ ScoreRank(keyword_scores, i) > 8
           /\ ~IsPartOf("proven expertise", tailored.resume.summary)

\* a returned resume for 'agile' three times and 'scrum' once
C18_WitnessScenario ==
    /\ Returned
    /\ tailored.job_description = Str("Agile coach: agile, AGILE and Scrum.")
    /\ IsPartOf("with proven expertise in agile methodologies.", tailored.resume.summary)

\* the items req_patterns[pattern - 1] finds in jd, match after match
ItemsOfPattern(pattern, jd) == ItemsFrom(MatchesAt(pattern, jd, Lower(jd)), 1)

\* C19: _extract_requirements returns at most 10 items, none empty or with
\* whitespace at an end: the first 10 of the items of the requirements
\* pattern, then of the qualifications, the what-you-need and the
\* you-should-have pattern, each pattern's items match after match; an item
\* two patterns find is returned twice
C19_FirstTenInPatternOrder ==
    extracted.called =>
        LET value == extracted.value
            found == ItemsOfPattern(1, extracted.jd) \o ItemsOfPattern(2, extracted.jd)
                     \o ItemsOfPattern(3, extracted.jd)
                     \o ItemsOfPattern(4, extracted.jd)
        IN  /\ Len(value) <= 10
            /\ \A i \in 1..Len(value) :
                   /\ Len(value[i]) > 0
                   /\ SubSeq(value[i], 1, 1) \notin {" ", "\n", "\t"}
                   /\ SubSeq(value[i], Len(value[i]), Len(value[i])) \notin {" ", "\n", "\t"}
            /\ value = SubSeq(found, 1, IF Len(found) < 10 THEN Len(found) ELSE 10)
            /\ extracted.jd =
                   "PM role\nRequirements and qualifications:\n- SQL\n* Python  \n3. Jira\n"
               => value = <<"and qualifications:", "SQL", "Python", "Jira",
                            "SQL", "Python", "Jira">>

\* an extraction that finds more than 10 items, cut to 10, with an item of
\* the requirements pattern that the qualifications pattern finds again
C19_Witness ==
    /\ extracted.called
    /\ Len(extracted.value) = 10
    /\ Len(ItemsOfPattern(1, extracted.jd)) + Len(ItemsOfPattern(2, extracted.jd)) > 10
    /\ \E i, j \in 1..10 :
           /\ i <= Len(ItemsOfPattern(1, extracted.jd))
           /\ j > Len(ItemsOfPattern(1, extracted.jd))
           /\ extracted.value[i] = extracted.value[j]

\* the items of the lines of ItemLines
ItemNames == <<"SQL", "Python", "Jira", "Agile coaching", "Roadmaps", "Figma">>

\* C20: the text after a requirement heading is captured up to the next
\* heading-like line or, when none follows, up to the end of the text, also
\* when the text does not end with a newline: a text that is a heading and
\* the lines of a section, ended by nothing, by a newline or by another
\* heading, yields the items of the section
C20_SectionAtEndYieldsItems ==
    extracted.called =>
        \A heading \in {"Requirements:", "What you will need:", "You should have:"} :
            \A n \in SectionSizes :
                \A ending \in Endings :
                    extracted.jd =
                        "PM role\n" \o heading \o Concat(Take(ItemLines, n)) \o ending
                    => extracted.value = Take(ItemNames, n)

\* the phrases of the industries category of the analyzer's table
IndustryPhrases ==
    PM_KEYWORDS[CHOOSE c \in 1..Len(PM_KEYWORDS) :
                    PM_KEYWORDS[c].category = "industries"].keywords

\* C21: _extract_company_info gives as industry the first phrase of the
\* industries category, in the order of the table and not of the text, that
\* occurs in the lowercased text, '' if none does; as stage 'startup' if
\* 'startup', 'early stage' or 'seed' occurs, whether or not a term of the
\* second group occurs too, else 'enterprise' if 'enterprise', 'fortune' or
\* 'large' occurs, else ''
C21_CompanyInfo ==
    company.called =>
        LET text == Lower(company.jd)
            occurring == {i \in 1..Len(IndustryPhrases) : IsPartOf(IndustryPhrases[i], text)}
            early == \E term \in {"startup", "early stage", "seed"} : IsPartOf(term, text)
            late == \E term \in {"enterprise", "fortune", "large"} : IsPartOf(term, text)
        IN  /\ occurring = {} => company.value.industry = ""
            /\ \A i \in occurring :
                   (\A j \in occurring : i <= j) => company.value.industry = IndustryPhrases[i]
            /\ early => company.value.stage = "startup"
            /\ (~early /\ late) => company.value.stage = "enterprise"
            /\ (~early /\ ~late) => company.value.stage = ""
            /\ company.jd = "Mobile and SaaS PM at startup for enterprise" =>
                   /\ company.value.industry = "saas"
                   /\ company.value.stage = "startup"

\* a call for a text that names 'Mobile' before 'SaaS' and a term of each
\* stage group: the industry is 'saas', the stage 'startup'
C21_Witness ==
    /\ company.called
    /\ company.jd = "Mobile and SaaS PM at Enterprise startups"
    /\ company.value.industry = "saas"
    /\ company.value.stage = "startup"

\* a call for a text with 'large' inside a word and no term of the first group
C21_WitnessEnterprise ==
    /\ company.called
    /\ IsPartOf("enlarged", company.jd)
    /\ company.value.stage = "enterprise"

\* the place of category c among the categories by descending number of
\* found keywords, categories of equal number in the order of the table
CategoryRank(found_keywords, c) ==
    1 + Cardinality({d \in 1..Len(found_keywords) :
                        \/ Len(found_keywords[d].found) > Len(found_keywords[c].found)
                        \/ /\ Len(found_keywords[d].found) = Len(found_keywords[c].found)
                           /\ d < c})

\* the names of the categories of places 1 to n
LeadingCategories(found_keywords, n) ==
    [r \in 1..(IF Len(found_keywords) < n THEN Len(found_keywords) ELSE n) |->
        found_keywords[CHOOSE c \in 1..Len(found_keywords) :
                           CategoryRank(found_keywords, c) = r].category]

\* the found keywords of an analysis, each with its category
FoundEntries(found_keywords) ==
    UNION { {<<c, k>> : k \in 1..Len(found_keywords[c].found)} :
                c \in 1..Len(found_keywords) }

\* C22: the analysis summary names the 3 categories with the most found
\* keywords, by descending number of found keywords and, for equal numbers,
\* in the order of the table; the totals it reports are the number of found
\* keywords of all categories and the length of the list of requirements
C22_AnalysisSummary ==
    Analyzed =>
        LET found_keywords == analysis.value.keywords
        IN  analysis.value.analysis_summary =
                "Found " \o ToString(Cardinality(FoundEntries(found_keywords)))
                \o " relevant PM keywords. Top focus areas: "
                \o Join(", ", LeadingCategories(found_keywords, 3))
                \o ". Identified " \o ToString(Len(analysis.value.requirements))
                \o " key requirements."

\* an analysis with found keywords and requirements whose leading category
\* is not the first of the table and whose third named category has as many
\* found keywords as a category that is not named
C22_Witness ==
    /\ Analyzed
    /\ LET found_keywords == analysis.value.keywords
       IN  /\ CategoryRank(found_keywords, 1) > 1
           /\ \E c, d \in 1..Len(found_keywords) :
                  /\ CategoryRank(found_keywords, c) = 3
                  /\ CategoryRank(found_keywords, d) > 3
                  /\ Len(found_keywords[c].found) = Len(found_keywords[d].found)

\* an analysis with a keyword that occurs more than once
C22_WitnessTotals ==
    /\ Analyzed
    /\ \E c \in 1..Len(analysis.value.keywords) :
           \E k \in 1..Len(analysis.value.keywords[c].found) :
               analysis.value.keywords[c].found[k].count > 1

\* the names of the categories of the tables with spaces for underscores
Spaced(category) ==
    CASE category = "core_skills" -> "core skills"
      [] category = "technical_skills" -> "technical skills"
      [] category = "soft_skills" -> "soft skills"
      [] OTHER -> category

\* C23: _generate_optimization_notes returns four notes: the number of found
\* keywords, the category with the most found keywords (the first of the
\* table among equals) with spaces for underscores, and the two fixed notes,
\* in this order; the number of the first note is the number the analysis
\* summary reports
C23_OptimizationNotes ==
    Returned =>
        LET found_keywords == tailored.resume.job_analysis.keywords
            total == ToString(Cardinality(FoundEntries(found_keywords)))
            reported == "Found " \o total \o " relevant PM keywords. "
        IN  /\ tailored.resume.optimization_notes =
                   << "Optimized for " \o total \o " relevant PM keywords from job description",
                      "Emphasized " \o Spaced(LeadingCategories(found_keywords, 1)[1])
                          \o " based on job requirements",
                      "Reordered experiences by relevance score",
                      "Prioritized skills matching job description" >>
            /\ SubSeq(tailored.resume.job_analysis.analysis_summary, 1, Len(reported))
                   = reported

\* a returned resume whose leading category is not the first of the table
\* and has an underscore in its name
C23_Witness ==
    /\ Returned
    /\ LET found_keywords == tailored.resume.job_analysis.keywords
       IN  /\ CategoryRank(found_keywords, 1) > 1
           /\ IsPartOf("_", LeadingCategories(found_keywords, 1)[1])
           /\ Len(tailored.resume.optimization_notes) = 4

\* a returned resume with two categories of the largest number of found
\* keywords
C23_WitnessTie ==
    /\ Returned
    /\ LET found_keywords == tailored.resume.job_analysis.keywords
       IN  \E c, d \in 1..Len(found_keywords) :
               /\ c # d
               /\ Len(found_keywords[c].found) = Len(found_keywords[d].found)
               /\ CategoryRank(found_keywords, c) = 1

\* C24: a result tailor_resume has returned is not changed by a later call
\* for another job description on the same profile: the relevance scores
\* seen through the experiences of the result are the scores the result was
\* returned with
C24_ReturnedResultUnchanged ==
    \A t \in Threads :
        ThreadReturned(t) =>
            \A i \in 1..Len(calls[t].scored_experiences) :
                exp_objs[calls[t].scored_experiences[i]].relevance_score
                    = calls[t].relevance_scores[i]

\* the number of places of a list that hold x
Places(seq, x) == Cardinality({i \in 1..Len(seq) : seq[i] = x})

\* two lists with the same elements, each as many times in one as in the other
SameElements(a, b) ==
    /\ Len(a) = Len(b)
    /\ \A i \in 1..Len(a) : Places(a, a[i]) = Places(b, a[i])

\* C25: ranking and prioritization only reorder: the list _score_experiences
\* returns holds the experiences of the profile, and the list
\* _prioritize_skills returns the skills of the profile, each as many times
\* as the profile lists it, and the experiences and skills of the resume are
\* entries of these lists
C25_OnlyReordered ==
    Returned =>
        /\ SameElements(tailored.scored_experiences, user_profile.experiences)
        /\ SameElements(tailored.prioritized_skills, user_profile.skills)
        /\ \A i \in 1..Len(tailored.scored_experiences) :
               Loaded(tailored.scored_experiences[i])
                   = NewExperience(Cycle(ExperiencePool, 0,
                                         ((tailored.scored_experiences[i] - 1)
                                             % (Len(user_profile.experiences) \div 2)) + 1))
        /\ \A i \in 1..Len(tailored.resume.experiences) :
               Places(user_profile.experiences, tailored.resume.experiences[i]) > 0
        /\ \A i \in 1..Len(tailored.resume.skills) :
               Places(user_profile.skills, tailored.resume.skills[i]) > 0

\* a returned resume for a profile that lists a skill twice, with the skills
\* and the experiences both in another order than in the profile
C25_Witness ==
    /\ Returned
    /\ \E i \in 1..Len(user_profile.skills) : Places(user_profile.skills, user_profile.skills[i]) = 2
    /\ \E i, j \in 1..Len(exp_objs) : i # j /\ Loaded(i) = Loaded(j)
    /\ tailored.prioritized_skills # user_profile.skills
    /\ tailored.scored_experiences # user_profile.experiences

\* the keys of a score map
Keys(keyword_scores) == {keyword_scores[k].keyword : k \in 1..Len(keyword_scores)}

\* the phrases an analysis lists as found, over all categories
FoundPhrases(found_keywords) ==
    UNION { {found_keywords[c].found[k].keyword : k \in 1..Len(found_keywords[c].found)} :
                c \in 1..Len(found_keywords) }

\* C26: in an analysis analyze returns, the keys of keyword_scores are the
\* phrases listed as found, every listed count is at least 1 and every score
\* is above 0; so in the list _prioritize_skills returns every skill whose
\* lowercased text is a found keyword stands before every skill for which it
\* is not
C26_FoundKeywordsScorePositive ==
    /\ Analyzed =>
           /\ Keys(analysis.value.keyword_scores) = FoundPhrases(analysis.value.keywords)
           /\ \A k, m \in 1..Len(analysis.value.keyword_scores) :
                  analysis.value.keyword_scores[k].keyword
                      = analysis.value.keyword_scores[m].keyword => k = m
           /\ \A c \in 1..Len(analysis.value.keywords) :
                  \A k \in 1..Len(analysis.value.keywords[c].found) :
                      analysis.value.keywords[c].found[k].count >= 1
           /\ \A k \in 1..Len(analysis.value.keyword_scores) :
                  analysis.value.keyword_scores[k].score > 0
    /\ Returned =>
           LET found == FoundPhrases(tailored.resume.job_analysis.keywords)
               out == tailored.prioritized_skills
           IN  \A i, j \in 1..Len(out) :
                   (LowerSkill[out[i]] \in found /\ LowerSkill[out[j]] \notin found) => i < j

\* a returned resume for an analysis that scores 'api' in a category without
\* a listed weight, with the skill 'API' after other skills in the profile
\* and first in the result
C26_Witness ==
    /\ Returned
    /\ PM_KEYWORDS[Len(PM_KEYWORDS)].category = "enterprise"
    /\ "api" \in FoundPhrases(tailored.resume.job_analysis.keywords)
    /\ \E p \in 2..Len(user_profile.skills) : user_profile.skills[p] = "API"
    /\ LowerSkill[tailored.prioritized_skills[1]] \in FoundPhrases(tailored.resume.job_analysis.keywords)
    /\ LowerSkill[user_profile.skills[1]] \notin FoundPhrases(tailored.resume.job_analysis.keywords)

\* the lines of a resume text that are not blank, without the whitespace at
\* their ends
NonBlankLines(resume_text) == SelectSeq(StripAll(SplitLines(resume_text)), NonEmpty)

\* the section a line that is no header belongs to: that of the last header
\* before it, 'Contact' when no header comes before it
SectionOfLine(lines, i) ==
    IF \E h \in 1..(i - 1) : FoundSection(lines[h]) # ""
    THEN FoundSection(lines[CHOOSE h \in 1..(i - 1) :
                                /\ FoundSection(lines[h]) # ""
                                /\ \A g \in (h + 1)..(i - 1) : FoundSection(lines[g]) = ""])
    ELSE "Contact"

\* the lines of a section that are no headers, in the order of the text
LinesOfSection(lines, section) ==
    LET Belongs(i) == FoundSection(lines[i]) = "" /\ SectionOfLine(lines, i) = section
        places == SelectSeq(List([i \in 1..Len(lines) |-> i]), Belongs)
    IN  List([k \in 1..Len(places) |-> lines[places[k]]])

\* C27: parse_resume_text stores every line that is neither blank nor a
\* header in exactly one section, that of the last header before it or
\* 'Contact' when it stands before the first header, in the order of the
\* text, also when a header occurs again or a 'Contact' header follows lines
\* without a header; headers are not stored
C27_EveryLineInItsSection ==
    parsed.called =>
        LET lines == NonBlankLines(parsed.resume_text)
        IN  /\ \A p \in 1..Len(SECTION_PATTERNS) :
                   LinesOfSection(lines, SECTION_PATTERNS[p].section) # <<>> =>
                       \E s \in 1..Len(parsed.value) :
                           parsed.value[s].section = SECTION_PATTERNS[p].section
            /\ \A s \in 1..Len(parsed.value) :
                   /\ parsed.value[s].content = LinesOfSection(lines, parsed.value[s].section)
                   /\ \A t \in 1..Len(parsed.value) :
                          parsed.value[t].section = parsed.value[s].section => t = s

\* the categories of a dict of categories
Categories(d) == {d[k].category : k \in 1..Len(d)}

\* the keywords a dict lists under a category, none when it lacks the category
KeywordsOf(d, category) ==
    UNION {{d[k].keywords[j] : j \in 1..Len(d[k].keywords)} :
             k \in {k \in 1..Len(d) : d[k].category = category}}

\* C28: the dict merge_keyword_categories returns has the categories of
\* either argument, each once, and lists under each category exactly the
\* keywords either argument lists under it, each once; after the call both
\* argument dicts and the lists in them are as they were before it
C28_MergedAndArgumentsUnchanged ==
    merging.called =>
        /\ Categories(merging.value)
               = Categories(merging.base_given) \cup Categories(merging.custom_given)
        /\ \A k \in 1..Len(merging.value) :
               /\ \A l \in 1..Len(merging.value) :
                      merging.value[l].category = merging.value[k].category => l = k
               /\ \A i, j \in 1..Len(merging.value[k].keywords) :
                      merging.value[k].keywords[i] = merging.value[k].keywords[j] => i = j
               /\ KeywordsOf(merging.value, merging.value[k].category)
                      = KeywordsOf(merging.base_given, merging.value[k].category)
                            \cup KeywordsOf(merging.custom_given, merging.value[k].category)
        /\ merging.base_keywords = merging.base_given
        /\ merging.custom_keywords = merging.custom_given

=========================================================================
